---- MODULE Spec2Model ----
(***************************************************************************)
(* The session engine of the mqttc client (src/mqttc/src/client.rs): its   *)
(* protocol state, the user operations, and the blocking await / accept /  *)
(* reconnect / handshake call chain, unrolled into a stack of frames that  *)
(* advances one transport read at a time.                                  *)
(***************************************************************************)
EXTENDS Integers, Sequences, FiniteSets, TLC

(* ------------------------------ bounds -------------------------------- *)

\* keep-alive interval, in clock ticks (opts.keep_alive = Some(KeepAlive))
KeepAlive == 1
\* outside SpecPid, pids are allocated while last_pid < MaxAlloc
MaxAlloc == 2
\* cap on the length of every queue
MaxQueue == 2
\* inbound packets carry a pid of 1..MaxInPid
MaxInPid == 2
\* a SUBSCRIBE / UNSUBSCRIBE of the user lists at most MaxTopics topics
MaxTopics == 1
\* at most MaxNest reconnect() calls are on the call stack at once
MaxNest == 1
\* SpecPid: publish() at QoS 1 is offered only for the pids 1..EarlyPubs
EarlyPubs == 2

(* ------------------------------ values -------------------------------- *)

\* Option::None of a pid or a QoS
None == -1
\* PacketIdentifier is a u16; its largest value
PidMax == 65535

QoSs == {0, 1, 2}
Topics == {"a", "b"}
InPids == 1 .. MaxInPid
ConnectReturnCodes == {"Accepted", "NotAuthorized"}

\* PacketIdentifier::zero()
zero == 0
\* PacketIdentifier::next(): the successor, skipping 0
next(pid) == IF pid = PidMax THEN 1 ELSE pid + 1

\* mqtt3::Message, reduced to the fields the engine reads
Message(qos, pid) == [qos |-> qos, pid |-> pid]

\* mqtt3::Packet; every variant carries every field, unused ones at a default
Pkt(t) == [t |-> t, pid |-> None, qos |-> None, sp |-> FALSE,
           code |-> "", codes |-> <<>>, topics |-> <<>>, payload |-> <<>>,
           topic_name |-> <<>>, dup |-> FALSE, retain |-> FALSE]
Connect == Pkt("Connect")
Connack(sp, code) == [Pkt("Connack") EXCEPT !.sp = sp, !.code = code]
Publish(m) == [Pkt("Publish") EXCEPT !.qos = m.qos, !.pid = m.pid]
Puback(pid) == [Pkt("Puback") EXCEPT !.pid = pid]
Pubrec(pid) == [Pkt("Pubrec") EXCEPT !.pid = pid]
Pubrel(pid) == [Pkt("Pubrel") EXCEPT !.pid = pid]
Pubcomp(pid) == [Pkt("Pubcomp") EXCEPT !.pid = pid]
Subscribe(pid, topics) == [Pkt("Subscribe") EXCEPT !.pid = pid, !.topics = topics]
Suback(pid, codes) == [Pkt("Suback") EXCEPT !.pid = pid, !.codes = codes]
Unsubscribe(pid, topics) == [Pkt("Unsubscribe") EXCEPT !.pid = pid, !.topics = topics]
Unsuback(pid) == [Pkt("Unsuback") EXCEPT !.pid = pid]
Pingreq == Pkt("Pingreq")
Pingresp == Pkt("Pingresp")
Disconnect == Pkt("Disconnect")
NoPacket == Pkt("")

\* mqtt3::SubscribeTopic and SubscribeReturnCodes (Success(qos) = qos, Failure = None)
SubscribeTopic(topic_path, qos) == [topic_path |-> topic_path, qos |-> qos]
Failure == None

\* sub::Subscription; an absent key of the HashMap is NoSubscription
Subscription(pid, qos) == [present |-> TRUE, pid |-> pid, qos |-> qos]
NoSubscription == [present |-> FALSE, pid |-> None, qos |-> None]

\* Result<..> of a call: Ok(()), Ok(None), Ok(Some(message)), Err(e), Err(e(pid)),
\* Err(ConnectionRefused(code))
Res(k, e, pid, qos) == [k |-> k, e |-> e, pid |-> pid, qos |-> qos, code |-> ""]
OkUnit == Res("Ok", "Unit", None, None)
OkNone == Res("Ok", "None", None, None)
OkSome(m) == Res("Ok", "Some", m.pid, m.qos)
Err(e) == Res("Err", e, None, None)
ErrPid(e, pid) == Res("Err", e, pid, None)
ErrCode(e, code) == [Res("Err", e, None, None) EXCEPT !.code = code]
\* the call has not returned yet
Running == Res("Running", "", None, None)

\* a method's outcome: the client after it and what it returned
Out(c, r) == [c |-> c, r |-> r]

\* what the transport and the stores answer in one step; no method goes on to the
\* second of the two after the first has failed
IOs == {io \in [flush : BOOLEAN, store : BOOLEAN] : io.flush \/ io.store}

(* ------------------------------ stores -------------------------------- *)

\* Option<Box<dyn Store>>: whether a store is configured and the pids it holds
Store(present) == [present |-> present, keys |-> {}]
\* Store::put(message): persists the message under its pid
put(store, pid) == [store EXCEPT !.keys = @ \cup {pid}]
\* Store::delete(pid): idempotent
delete(store, pid) == [store EXCEPT !.keys = @ \ {pid}]
\* Store::get(pid) succeeds for a pid that was put and not deleted
get_ok(store, pid) == pid \in store.keys

(* ------------------------- Client: the helpers ------------------------- *)

\* Client::_write_packet: the packet goes to the connection's writer
_write_packet(c, packet) == [c EXCEPT !.sent = Append(@, packet)]

\* Client::_flush: flushes the writer and restarts the keep-alive clock
_flush(c, ok) ==
    IF ok THEN Out([c EXCEPT !.elapsed = 0], OkUnit) ELSE Out(c, Err("Io"))

\* _next_pid that returns the successor without storing it in last_pid
_next_pid_NotStored(c) == [c |-> c, pid |-> next(c.last_pid)]

\* Client::_next_pid: advances last_pid and returns it
_next_pid(c) ==
    LET pid == next(c.last_pid)
    IN  [c |-> [c EXCEPT !.last_pid = pid], pid |-> pid]

\* an unbind that drops the publishes waiting for their PUBACK as well
_unbind_DropAcks(c) ==
    [c EXCEPT !.await_unsuback = <<>>, !.await_suback = <<>>,
              !.await_ping = FALSE, !.state = "Disconnected",
              !.outgoing_ack = <<>>]

\* Client::_unbind: closes the transport, forgets the pending (un)subscribes
_unbind(c) ==
    [c EXCEPT !.await_unsuback = <<>>, !.await_suback = <<>>,
              !.await_ping = FALSE, !.state = "Disconnected"]

\* Client::_normalized: connected, no ping outstanding, nothing in flight
_normalized(c) ==
    /\ c.state = "Connected"
    /\ ~c.await_ping
    /\ Len(c.outgoing_ack) = 0
    /\ Len(c.outgoing_rec) = 0
    /\ Len(c.incomming_pub) = 0
    /\ Len(c.incomming_rec) = 0
    /\ Len(c.incomming_rel) = 0
    /\ Len(c.await_suback) = 0
    /\ Len(c.await_unsuback) = 0

(* ---------------------- Client: the user operations -------------------- *)

\* a _publish that writes the QoS 2 PUBLISH before it looks at the store
_publish_WriteFirst(c, qos, io) ==
    CASE qos = 0 ->
           Out(_write_packet(c, Publish(Message(0, None))), OkUnit)
      [] qos = 1 ->
           LET a == _next_pid(c)
               message == Message(1, a.pid)
               c1 == [a.c EXCEPT !.outgoing_ack = Append(@, message)]
           IN  Out(_write_packet(c1, Publish(message)), OkUnit)
      [] qos = 2 ->
           LET a == _next_pid(c)
               message == Message(2, a.pid)
               w == _write_packet(a.c, Publish(message))
           IN  IF ~w.outgoing_store.present
               THEN Out(w, Err("OutgoingStorageAbsent"))
               ELSE IF ~io.store
               THEN Out(w, Err("Storage"))
               ELSE Out([w EXCEPT !.outgoing_store = put(@, a.pid),
                                  !.outgoing_rec = Append(@, message)], OkUnit)

\* a _publish that queues the QoS 2 message before it looks at the store
_publish_QueueFirst(c, qos, io) ==
    CASE qos = 0 ->
           Out(_write_packet(c, Publish(Message(0, None))), OkUnit)
      [] qos = 1 ->
           LET a == _next_pid(c)
               message == Message(1, a.pid)
               c1 == [a.c EXCEPT !.outgoing_ack = Append(@, message)]
           IN  Out(_write_packet(c1, Publish(message)), OkUnit)
      [] qos = 2 ->
           LET a == _next_pid(c)
               message == Message(2, a.pid)
               q == [a.c EXCEPT !.outgoing_rec = Append(@, message)]
           IN  IF ~q.outgoing_store.present
               THEN Out(q, Err("OutgoingStorageAbsent"))
               ELSE IF ~io.store
               THEN Out(q, Err("Storage"))
               ELSE LET c1 == [q EXCEPT !.outgoing_store = put(@, a.pid)]
                    IN  Out(_write_packet(c1, Publish(message)), OkUnit)

\* Client::_publish: allocates a pid for QoS 1 and 2, queues, writes PUBLISH
_publish(c, qos, io) ==
    CASE qos = 0 ->
           Out(_write_packet(c, Publish(Message(0, None))), OkUnit)
      [] qos = 1 ->
           LET a == _next_pid(c)
               message == Message(1, a.pid)
               c1 == [a.c EXCEPT !.outgoing_ack = Append(@, message)]
           IN  Out(_write_packet(c1, Publish(message)), OkUnit)
      [] qos = 2 ->
           LET a == _next_pid(c)
               message == Message(2, a.pid)
           IN  IF ~a.c.outgoing_store.present
               THEN Out(a.c, Err("OutgoingStorageAbsent"))
               ELSE IF ~io.store
               THEN Out(a.c, Err("Storage"))
               ELSE LET c1 == [a.c EXCEPT
                                 !.outgoing_store = put(@, a.pid),
                                 !.outgoing_rec = Append(@, message)]
                    IN  Out(_write_packet(c1, Publish(message)), OkUnit)

\* PubSub::publish
publish(c, qos, io) ==
    LET p == _publish(c, qos, io)
    IN  IF p.r.k = "Err" THEN p ELSE _flush(p.c, io.flush)

\* Client::_subscribe
_subscribe(c, topics) ==
    LET a == _next_pid(c)
        subscribe == Subscribe(a.pid, topics)
        c1 == [a.c EXCEPT !.await_suback = Append(@, subscribe)]
    IN  Out(_write_packet(c1, subscribe), OkUnit)

\* PubSub::subscribe
subscribe(c, topics, io) == _flush(_subscribe(c, topics).c, io.flush)

\* Client::_unsubscribe
_unsubscribe(c, topics) ==
    LET a == _next_pid(c)
        unsubscribe == Unsubscribe(a.pid, topics)
        c1 == [a.c EXCEPT !.await_unsuback = Append(@, unsubscribe)]
    IN  Out(_write_packet(c1, unsubscribe), OkUnit)

\* PubSub::unsubscribe
unsubscribe(c, topics, io) == _flush(_unsubscribe(c, topics).c, io.flush)

\* ping that does not record the outstanding PINGREQ
ping_NoFlag(c, io) == _flush(_write_packet(c, Pingreq), io.flush)

\* Client::ping
ping(c, io) ==
    _flush(_write_packet([c EXCEPT !.await_ping = TRUE], Pingreq), io.flush)

\* complete that leaves the message in incomming_store
complete_KeepStored(c, pid, io) ==
    LET n == Len(c.incomming_rel)
        same_pid == IF n = 0 THEN None ELSE c.incomming_rel[n]
        c1 == [c EXCEPT !.incomming_rel = IF n = 0 THEN <<>> ELSE SubSeq(@, 1, n - 1)]
    IN  IF same_pid = pid
        THEN _flush(_write_packet(c1, Pubcomp(pid)), io.flush)
        ELSE Out(c1, Err("ProtocolViolation"))

\* complete that compares with the oldest entry of incomming_rel and removes it
complete_Oldest(c, pid, io) ==
    LET n == Len(c.incomming_rel)
        same_pid == IF n = 0 THEN None ELSE c.incomming_rel[1]
        c1 == [c EXCEPT !.incomming_rel = IF n = 0 THEN <<>> ELSE Tail(@)]
    IN  IF same_pid = pid
        THEN LET f == _flush(_write_packet(c1, Pubcomp(pid)), io.flush)
             IN  IF f.r.k = "Err" THEN f
                 ELSE IF ~f.c.incomming_store.present
                 THEN Out(f.c, Err("IncommingStorageAbsent"))
                 ELSE IF ~io.store
                 THEN Out(f.c, Err("Storage"))
                 ELSE Out([f.c EXCEPT !.incomming_store = delete(@, pid)], OkUnit)
        ELSE Out(c1, Err("ProtocolViolation"))

\* Client::complete: the user's confirmation of a delivered QoS 2 message
complete(c, pid, io) ==
    LET n == Len(c.incomming_rel)
        same_pid == IF n = 0 THEN None ELSE c.incomming_rel[n]
        c1 == [c EXCEPT !.incomming_rel = IF n = 0 THEN <<>> ELSE SubSeq(@, 1, n - 1)]
    IN  IF same_pid = pid
        THEN LET f == _flush(_write_packet(c1, Pubcomp(pid)), io.flush)
             IN  IF f.r.k = "Err" THEN f
                 ELSE IF ~f.c.incomming_store.present
                 THEN Out(f.c, Err("IncommingStorageAbsent"))
                 ELSE IF ~io.store
                 THEN Out(f.c, Err("Storage"))
                 ELSE Out([f.c EXCEPT !.incomming_store = delete(@, pid)], OkUnit)
        ELSE Out(c1, Err("ProtocolViolation"))

\* Client::terminate
terminate(c) == _unbind(c)

(* ---------------------- Client: inbound dispatch ----------------------- *)

\* _handle_message that answers a QoS 2 PUBLISH with PUBREC before it looks for
\* the store
_handle_message_RecFirst(c, message, io) ==
    CASE message.qos = 0 -> Out(c, OkSome(message))
      [] message.qos = 1 ->
           LET c1 == [c EXCEPT !.incomming_pub = Append(@, message)]
               f == _flush(_write_packet(c1, Puback(message.pid)), io.flush)
           IN  IF f.r.k = "Err" THEN f
               ELSE Out([f.c EXCEPT !.incomming_pub = Tail(@)], OkSome(message))
      [] message.qos = 2 ->
           LET c1 == [c EXCEPT !.incomming_rec = Append(@, message)]
               f == _flush(_write_packet(c1, Pubrec(message.pid)), io.flush)
           IN  IF f.r.k = "Err" THEN f
               ELSE IF ~f.c.incomming_store.present
               THEN Out(f.c, Err("IncommingStorageAbsent"))
               ELSE IF ~io.store
               THEN Out(f.c, Err("Storage"))
               ELSE Out([f.c EXCEPT !.incomming_store = put(@, message.pid)], OkNone)

\* _handle_message that looks for the store before it queues a QoS 2 message
_handle_message_StoreFirst(c, message, io) ==
    CASE message.qos = 0 -> Out(c, OkSome(message))
      [] message.qos = 1 ->
           LET c1 == [c EXCEPT !.incomming_pub = Append(@, message)]
               f == _flush(_write_packet(c1, Puback(message.pid)), io.flush)
           IN  IF f.r.k = "Err" THEN f
               ELSE Out([f.c EXCEPT !.incomming_pub = Tail(@)], OkSome(message))
      [] message.qos = 2 ->
           LET c1 == [c EXCEPT !.incomming_rec = Append(@, message)]
           IN  IF ~c.incomming_store.present
               THEN Out(c, Err("IncommingStorageAbsent"))
               ELSE IF ~io.store
               THEN Out(c1, Err("Storage"))
               ELSE LET c2 == [c1 EXCEPT !.incomming_store = put(@, message.pid)]
                        f == _flush(_write_packet(c2, Pubrec(message.pid)), io.flush)
                    IN  IF f.r.k = "Err" THEN f ELSE Out(f.c, OkNone)

\* Client::_handle_message: an inbound PUBLISH, by its QoS
_handle_message(c, message, io) ==
    CASE message.qos = 0 -> Out(c, OkSome(message))
      [] message.qos = 1 ->
           LET c1 == [c EXCEPT !.incomming_pub = Append(@, message)]
               f == _flush(_write_packet(c1, Puback(message.pid)), io.flush)
           IN  IF f.r.k = "Err" THEN f
               ELSE Out([f.c EXCEPT !.incomming_pub = Tail(@)], OkSome(message))
      [] message.qos = 2 ->
           LET c1 == [c EXCEPT !.incomming_rec = Append(@, message)]
           IN  IF ~c1.incomming_store.present
               THEN Out(c1, Err("IncommingStorageAbsent"))
               ELSE IF ~io.store
               THEN Out(c1, Err("Storage"))
               ELSE LET c2 == [c1 EXCEPT !.incomming_store = put(@, message.pid)]
                        f == _flush(_write_packet(c2, Pubrec(message.pid)), io.flush)
                    IN  IF f.r.k = "Err" THEN f ELSE Out(f.c, OkNone)

\* a SUBACK loop that installs the QoS asked for, not the QoS granted
RECURSIVE InstallSubscriptions_Requested(_, _, _, _, _)
InstallSubscriptions_Requested(subscriptions, pid, codes, topics, i) ==
    IF i > Len(codes) THEN subscriptions
    ELSE InstallSubscriptions_Requested(
             IF codes[i] = Failure THEN subscriptions
             ELSE [subscriptions EXCEPT
                     ![topics[i].topic_path] = Subscription(pid, topics[i].qos)],
             pid, codes, topics, i + 1)

\* the SUBACK loop of Client::_parse_packet: the return codes zipped with the
\* topics of the SUBSCRIBE, from position i on
RECURSIVE InstallSubscriptions(_, _, _, _, _)
InstallSubscriptions(subscriptions, pid, codes, topics, i) ==
    IF i > Len(codes) THEN subscriptions
    ELSE InstallSubscriptions(
             IF codes[i] = Failure THEN subscriptions
             ELSE [subscriptions EXCEPT
                     ![topics[i].topic_path] = Subscription(pid, codes[i])],
             pid, codes, topics, i + 1)

\* the UNSUBACK loop of Client::_parse_packet
RemoveSubscriptions(subscriptions, topics) ==
    [t \in DOMAIN subscriptions |->
        IF \E i \in 1 .. Len(topics) : topics[i] = t THEN NoSubscription
        ELSE subscriptions[t]]

\* a handshake that takes every CONNACK for an acceptance
ParseHandshake_AnyCode(c, packet) ==
    IF packet.t = "Connack"
    THEN Out([c EXCEPT !.session_present = packet.sp, !.state = "Connected"],
             OkNone)
    ELSE Out(c, Err("HandshakeFailed"))

\* Client::_parse_packet, state Handshake
ParseHandshake(c, packet) ==
    IF packet.t = "Connack"
    THEN IF packet.code = "Accepted"
         THEN Out([c EXCEPT !.session_present = packet.sp, !.state = "Connected"],
                  OkNone)
         ELSE Out(c, ErrCode("ConnectionRefused", packet.code))
    ELSE Out(c, Err("HandshakeFailed"))

\* ParsePuback without the comparison of the pids: any PUBACK acknowledges the head
ParsePuback_AnyPid(c, pid) ==
    IF Len(c.outgoing_ack) > 0
    THEN Out([c EXCEPT !.outgoing_ack = Tail(@)], OkNone)
    ELSE Out(c, ErrPid("UnhandledPuback", pid))

\* Client::_parse_packet, state Connected, PUBACK
ParsePuback(c, pid) ==
    IF Len(c.outgoing_ack) > 0
    THEN LET message == Head(c.outgoing_ack)
             c1 == [c EXCEPT !.outgoing_ack = Tail(@)]
         IN  IF message.pid = pid THEN Out(c1, OkNone)
             ELSE Out(c1, ErrPid("UnhandledPuback", pid))
    ELSE Out(c, ErrPid("UnhandledPuback", pid))

\* ParsePubrec that leaves the message in outgoing_store
ParsePubrec_KeepStored(c, pid, io) ==
    IF Len(c.outgoing_rec) > 0
    THEN LET message == Head(c.outgoing_rec)
             c1 == [c EXCEPT !.outgoing_rec = Tail(@)]
         IN  IF message.pid = pid
             THEN LET f == _flush(_write_packet(c1, Pubrel(pid)), io.flush)
                  IN  IF f.r.k = "Err" THEN f
                      ELSE Out([f.c EXCEPT !.outgoing_comp = Append(@, pid)], OkNone)
             ELSE Out(c1, ErrPid("UnhandledPubrec", pid))
    ELSE Out(c, ErrPid("UnhandledPubrec", pid))

\* Client::_parse_packet, state Connected, PUBREC
ParsePubrec(c, pid, io) ==
    IF Len(c.outgoing_rec) > 0
    THEN LET message == Head(c.outgoing_rec)
             c1 == [c EXCEPT !.outgoing_rec = Tail(@)]
         IN  IF message.pid = pid
             THEN LET f == _flush(_write_packet(c1, Pubrel(pid)), io.flush)
                      c2 == [f.c EXCEPT !.outgoing_comp = Append(@, pid)]
                  IN  IF f.r.k = "Err" THEN f
                      ELSE IF ~c2.outgoing_store.present
                      THEN Out(c2, Err("IncommingStorageAbsent"))
                      ELSE IF ~io.store
                      THEN Out(c2, Err("Storage"))
                      ELSE Out([c2 EXCEPT !.outgoing_store = delete(@, pid)], OkNone)
             ELSE Out(c1, ErrPid("UnhandledPubrec", pid))
    ELSE Out(c, ErrPid("UnhandledPubrec", pid))

\* Client::_parse_packet, state Connected, PUBREL
ParsePubrel(c, pid, io) ==
    IF Len(c.incomming_rec) > 0
    THEN LET message == Head(c.incomming_rec)
             c1 == [c EXCEPT !.incomming_rec = Tail(@)]
         IN  IF message.pid = pid
             THEN IF ~c1.incomming_store.present
                  THEN Out(c1, Err("IncommingStorageAbsent"))
                  ELSE IF ~(io.store /\ get_ok(c1.incomming_store, pid))
                  THEN Out(c1, Err("Storage"))
                  ELSE Out([c1 EXCEPT !.incomming_rel = Append(@, pid)],
                           OkSome(Message(2, pid)))
             ELSE Out(c1, ErrPid("UnhandledPubrel", pid))
    ELSE Out(c, ErrPid("UnhandledPubrel", pid))

\* Client::_parse_packet, state Connected, PUBCOMP
ParsePubcomp(c, pid) ==
    IF Len(c.outgoing_comp) > 0
    THEN Out([c EXCEPT !.outgoing_comp = Tail(@)], OkNone)
    ELSE Out(c, ErrPid("UnhandledPubcomp", pid))

\* a SUBACK arm that does not compare the pids
ParseSuback_AnyPid(c, suback) ==
    IF Len(c.await_suback) > 0
    THEN LET sub == Head(c.await_suback)
             c1 == [c EXCEPT !.await_suback = Tail(@)]
         IN  IF Len(sub.topics) = Len(suback.codes)
             THEN Out([c1 EXCEPT !.subscriptions =
                          InstallSubscriptions(@, sub.pid, suback.codes, sub.topics, 1)],
                      OkNone)
             ELSE Out(c1, Err("ProtocolViolation"))
    ELSE Out(c, Err("ProtocolViolation"))

\* Client::_parse_packet, state Connected, SUBACK
ParseSuback(c, suback) ==
    IF Len(c.await_suback) > 0
    THEN LET sub == Head(c.await_suback)
             c1 == [c EXCEPT !.await_suback = Tail(@)]
         IN  IF sub.pid = suback.pid /\ Len(sub.topics) = Len(suback.codes)
             THEN Out([c1 EXCEPT !.subscriptions =
                          InstallSubscriptions(@, sub.pid, suback.codes, sub.topics, 1)],
                      OkNone)
             ELSE Out(c1, Err("ProtocolViolation"))
    ELSE Out(c, Err("ProtocolViolation"))

\* an UNSUBACK arm that puts the UNSUBSCRIBE back when the pids differ
ParseUnsuback_KeepHead(c, pid) ==
    IF Len(c.await_unsuback) > 0
    THEN LET unsub == Head(c.await_unsuback)
             c1 == [c EXCEPT !.await_unsuback = Tail(@)]
         IN  IF unsub.pid = pid
             THEN Out([c1 EXCEPT !.subscriptions = RemoveSubscriptions(@, unsub.topics)],
                      OkNone)
             ELSE Out(c, Err("ProtocolViolation"))
    ELSE Out(c, Err("ProtocolViolation"))

\* Client::_parse_packet, state Connected, UNSUBACK
ParseUnsuback(c, pid) ==
    IF Len(c.await_unsuback) > 0
    THEN LET unsub == Head(c.await_unsuback)
             c1 == [c EXCEPT !.await_unsuback = Tail(@)]
         IN  IF unsub.pid = pid
             THEN Out([c1 EXCEPT !.subscriptions = RemoveSubscriptions(@, unsub.topics)],
                      OkNone)
             ELSE Out(c1, Err("ProtocolViolation"))
    ELSE Out(c, Err("ProtocolViolation"))

\* Client::_parse_packet
_parse_packet(c, packet, io) ==
    CASE c.state = "Handshake" -> ParseHandshake(c, packet)
      [] c.state = "Connected" ->
           CASE packet.t = "Connack" -> Out(c, Err("AlreadyConnected"))
             [] packet.t = "Publish" ->
                  _handle_message(c, Message(packet.qos, packet.pid), io)
             [] packet.t = "Puback" -> ParsePuback(c, packet.pid)
             [] packet.t = "Pubrec" -> ParsePubrec(c, packet.pid, io)
             [] packet.t = "Pubrel" -> ParsePubrel(c, packet.pid, io)
             [] packet.t = "Pubcomp" -> ParsePubcomp(c, packet.pid)
             [] packet.t = "Suback" -> ParseSuback(c, packet)
             [] packet.t = "Unsuback" -> ParseUnsuback(c, packet.pid)
             [] packet.t = "Pingresp" -> Out([c EXCEPT !.await_ping = FALSE], OkNone)
             [] OTHER -> Out(c, Err("UnrecognizedPacket"))
      [] c.state = "Disconnected" -> Out(c, Err("ConnectionAbort"))

(* ------------- Client: the blocking calls, up to the next call ---------- *)

\* the method is about to call another blocking method of the client
Call(f) == Res("Call", f, None, None)

\* Client::_connect: CONNECT, flushed
_connect(c, io) == _flush(_write_packet(c, Connect), io.flush)

\* Client::_handshake, up to its call of await()
_handshake(c, io) ==
    LET f == _connect([c EXCEPT !.state = "Handshake"], io)
    IN  IF f.r.k = "Err" THEN f ELSE Out(f.c, Call("await"))

\* a _try_reconnect that reconnects under either policy
_try_reconnect_Always(c) == Out(c, Call("reconnect"))

\* Client::_try_reconnect, up to its call of reconnect(); false is Err(Disconnected)
\* in each of its callers
_try_reconnect(c) ==
    IF c.opts_reconnect = "ForeverDisconnect"
    THEN Out(c, Err("Disconnected"))
    ELSE Out(c, Call("reconnect"))

\* an accept that unbinds when it finds the keep-alive interval used up
accept_TimeoutUnbinds(c, read, packet, io) ==
    IF c.state \in {"Connected", "Handshake"}
    THEN IF c.elapsed >= KeepAlive
         THEN Out(_unbind(c), Err("Timeout"))
         ELSE CASE read = "packet" ->
                     LET p == _parse_packet(c, packet, io)
                     IN  IF p.r = Err("ConnectionAbort")
                         THEN Out(_unbind(p.c), p.r)
                         ELSE p
                [] read = "timeout" ->
                     Out([c EXCEPT !.elapsed = KeepAlive], Err("Timeout"))
                [] read = "eof" -> _try_reconnect(c)
                [] read = "lost" -> _try_reconnect(_unbind(c))
                [] read = "io" -> Out(_unbind(c), Err("Io"))
                [] read = "codec" -> Out(c, Err("Mqtt"))
    ELSE _try_reconnect(c)

\* an accept that reads and dispatches whatever the state is
accept_AnyState(c, read, packet, io) ==
    IF c.elapsed >= KeepAlive
    THEN Out(c, Err("Timeout"))
    ELSE CASE read = "packet" ->
                LET p == _parse_packet(c, packet, io)
                IN  IF p.r = Err("ConnectionAbort")
                    THEN Out(_unbind(p.c), p.r)
                    ELSE p
           [] read = "timeout" ->
                Out([c EXCEPT !.elapsed = KeepAlive], Err("Timeout"))
           [] read = "eof" -> _try_reconnect(c)
           [] read = "lost" -> _try_reconnect(_unbind(c))
           [] read = "io" -> Out(_unbind(c), Err("Io"))
           [] read = "codec" -> Out(c, Err("Mqtt"))

\* Client::accept, up to its return or its call of reconnect(); read is what
\* conn.read_packet() gave
accept(c, read, packet, io) ==
    IF c.state \in {"Connected", "Handshake"}
    THEN IF c.elapsed >= KeepAlive
         THEN Out(c, Err("Timeout"))
         ELSE CASE read = "packet" ->
                     LET p == _parse_packet(c, packet, io)
                     IN  IF p.r = Err("ConnectionAbort")
                         THEN Out(_unbind(p.c), p.r)
                         ELSE p
                [] read = "timeout" ->
                     Out([c EXCEPT !.elapsed = KeepAlive], Err("Timeout"))
                [] read = "eof" -> _try_reconnect(c)
                [] read = "lost" -> _try_reconnect(_unbind(c))
                [] read = "io" -> Out(_unbind(c), Err("Io"))
                [] read = "codec" -> Out(c, Err("Mqtt"))
    ELSE _try_reconnect(c)

\* an accept that answers a failed reconnect() with Disconnected
accept_resume_Propagate(c, r) ==
    IF r.k = "Err" THEN Out(c, Err("Disconnected")) ELSE Out(c, OkNone)

\* Client::accept, after reconnect() returned: its result is dropped
accept_resume(c, r) == Out(c, OkNone)

\* await that answers every keep-alive timeout with another PINGREQ
await_resume_PingAgain(c, r, io) ==
    LET h == CASE r.k = "Ok" /\ r.e = "Some" -> Out(c, r)
               [] r.k = "Ok" -> Out(c, Running)
               [] r = Err("Timeout") ->
                    IF c.state = "Connected"
                    THEN Out(ping(c, io).c, Running)
                    ELSE Out(c, r)
               [] OTHER -> Out(c, r)
    IN  IF h.r = Running /\ _normalized(h.c) THEN Out(h.c, OkNone) ELSE h

\* an await that returns Ok(None) as soon as the client is Connected
await_resume_Connected(c, r, io) ==
    LET h == CASE r.k = "Ok" /\ r.e = "Some" -> Out(c, r)
               [] r.k = "Ok" -> Out(c, Running)
               [] r = Err("Timeout") ->
                    IF c.state = "Connected"
                    THEN IF ~c.await_ping
                         THEN Out(ping(c, io).c, Running)
                         ELSE Out(_unbind(c), Running)
                    ELSE Out(c, r)
               [] OTHER -> Out(c, r)
    IN  IF h.r = Running /\ h.c.state = "Connected" THEN Out(h.c, OkNone) ELSE h

\* Client::await, after accept() returned r: Running is another turn of the loop
await_resume(c, r, io) ==
    LET h == CASE r.k = "Ok" /\ r.e = "Some" -> Out(c, r)
               [] r.k = "Ok" -> Out(c, Running)
               [] r = Err("Timeout") ->
                    IF c.state = "Connected"
                    THEN IF ~c.await_ping
                         THEN Out(ping(c, io).c, Running)
                         ELSE Out(_unbind(c), Running)
                    ELSE Out(c, r)
               [] OTHER -> Out(c, r)
    IN  IF h.r = Running /\ _normalized(h.c) THEN Out(h.c, OkNone) ELSE h

\* a reconnect that opens a stream whatever the state
reconnect_Always(c, conn_ok, io) ==
    IF ~conn_ok THEN Out([c EXCEPT !.conn = "failed"], Err("Io"))
    ELSE _handshake([c EXCEPT !.conn = "opened"], io)

\* Client::reconnect, up to the await() of its handshake; conn_ok is whether the
\* new stream could be opened
reconnect(c, conn_ok, io) ==
    IF c.state = "Connected" THEN Out(c, OkUnit)
    ELSE IF ~conn_ok THEN Out([c EXCEPT !.conn = "failed"], Err("Io"))
    ELSE _handshake([c EXCEPT !.conn = "opened"], io)

\* a resubscribe that empties the map it read
_resubscribe_Clearing(c, subs) ==
    [_subscribe(c, subs).c EXCEPT
        !.subscriptions = [t \in DOMAIN @ |-> NoSubscription]]

\* a resubscribe that writes no SUBSCRIBE when there is no subscription
_resubscribe_SkipEmpty(c, subs) == IF subs = <<>> THEN c ELSE _subscribe(c, subs).c

\* Client::_resubscribe: one SUBSCRIBE for the subscriptions, in the map's order
_resubscribe(c, subs) == _subscribe(c, subs).c

\* Client::reconnect, after the await() of its handshake returned r
reconnect_resume(c, r, subs) ==
    IF r.k = "Err" THEN Out(c, r) ELSE Out(_resubscribe(c, subs), OkUnit)

\* ClientOptions::connect, after the await() of its handshake returned r
connect_resume(c, r) == IF r.k = "Err" THEN Out(c, r) ELSE Out(c, OkUnit)

(* ------------------------------ the state ------------------------------ *)

VARIABLES
    state, session_present, elapsed, last_pid, await_ping,
    incomming_pub, incomming_rec, incomming_rel,
    outgoing_ack, outgoing_rec, outgoing_comp,
    await_suback, await_unsuback, subscriptions,
    opts_reconnect, incomming_store, outgoing_store,
    sent, stack, ret, op, out_cycle, in_cycle, alive,
    stream, decoded

client_vars == <<state, session_present, elapsed, last_pid, await_ping,
                 incomming_pub, incomming_rec, incomming_rel,
                 outgoing_ack, outgoing_rec, outgoing_comp,
                 await_suback, await_unsuback, subscriptions,
                 opts_reconnect, incomming_store, outgoing_store, sent>>
\* stream is what a byte stream under the decoder still holds, decoded what the
\* decoder made of the bytes it took last
wire_vars == <<stream, decoded>>
vars == <<client_vars, stack, ret, op, out_cycle, in_cycle, alive, wire_vars>>

\* the Client at the start of a step; sent collects what the step writes, conn
\* what it does to get a new stream ("opened", "failed", or "" when it does not try)
self ==
    [state |-> state, session_present |-> session_present, elapsed |-> elapsed,
     last_pid |-> last_pid, await_ping |-> await_ping,
     incomming_pub |-> incomming_pub, incomming_rec |-> incomming_rec,
     incomming_rel |-> incomming_rel, outgoing_ack |-> outgoing_ack,
     outgoing_rec |-> outgoing_rec, outgoing_comp |-> outgoing_comp,
     await_suback |-> await_suback, await_unsuback |-> await_unsuback,
     subscriptions |-> subscriptions, opts_reconnect |-> opts_reconnect,
     incomming_store |-> incomming_store, outgoing_store |-> outgoing_store,
     sent |-> <<>>, conn |-> ""]

\* the Client at the end of a step
Commit(c) ==
    /\ state' = c.state
    /\ session_present' = c.session_present
    /\ elapsed' = c.elapsed
    /\ last_pid' = c.last_pid
    /\ await_ping' = c.await_ping
    /\ incomming_pub' = c.incomming_pub
    /\ incomming_rec' = c.incomming_rec
    /\ incomming_rel' = c.incomming_rel
    /\ outgoing_ack' = c.outgoing_ack
    /\ outgoing_rec' = c.outgoing_rec
    /\ outgoing_comp' = c.outgoing_comp
    /\ await_suback' = c.await_suback
    /\ await_unsuback' = c.await_unsuback
    /\ subscriptions' = c.subscriptions
    /\ opts_reconnect' = c.opts_reconnect
    /\ incomming_store' = c.incomming_store
    /\ outgoing_store' = c.outgoing_store
    /\ sent' = c.sent

\* the last step: the user's call in progress (f), the method that ran (step) and
\* its inputs; conn tells whether reconnect() went to open a stream ("opened",
\* "failed") or did not try (""); bytes is what read_packet() found on the stream,
\* where the step is given bytes and not a packet
Op(f, step) == [f |-> f, step |-> step, read |-> "", packet |-> NoPacket,
                pid |-> None, qos |-> None, conn |-> "", bytes |-> <<>>]

\* Observer of one outgoing QoS 2 exchange, PUBLISH -> PUBREC -> PUBREL -> PUBCOMP:
\* stage 1 once publish() at QoS 2 returned Ok with no other QoS 2 publish in
\* flight, stage 2 once accept() returned Ok on the PUBREC of that pid, stage 3 once
\* it returned Ok on the PUBCOMP of that pid.  A step in between that leaves
\* outgoing_rec, outgoing_comp and outgoing_store alone is not part of the
\* exchange; any other step ends the observation.
NoOutCycle == [pid |-> None, stage |-> 0]
OutCycle(cy, c, res, o) ==
    LET d == res.c
        ok == res.r.k = "Ok"
        read == o.step = "accept" /\ o.read = "packet"
    IN  IF o.step = "publish" /\ o.qos = 2 /\ ok
           /\ c.outgoing_rec = <<>> /\ c.outgoing_comp = <<>>
        THEN [pid |-> d.last_pid, stage |-> 1]
        ELSE IF cy.stage = 1 /\ read /\ o.packet = Pubrec(cy.pid) /\ ok
        THEN [cy EXCEPT !.stage = 2]
        ELSE IF cy.stage = 2 /\ read /\ o.packet = Pubcomp(cy.pid) /\ ok
        THEN [cy EXCEPT !.stage = 3]
        ELSE IF /\ d.outgoing_rec = c.outgoing_rec
                /\ d.outgoing_comp = c.outgoing_comp
                /\ d.outgoing_store = c.outgoing_store
        THEN cy
        ELSE NoOutCycle

\* Observer of one incoming QoS 2 exchange, PUBLISH -> PUBREC -> PUBREL ->
\* complete() -> PUBCOMP: stage 1 once accept() returned Ok on the PUBLISH of the
\* pid, stage 2 once it returned Ok on the PUBREL of that pid, stage 3 once
\* complete(pid) returned Ok.  fresh: no entry of incomming_rec or incomming_rel
\* had that pid when the PUBLISH came; handed: how often accept() has returned
\* the message since.  Steps in between as for the outgoing exchange.
NoInCycle == [pid |-> None, stage |-> 0, fresh |-> FALSE, handed |-> 0]
InCycle(cy, c, res, o) ==
    LET d == res.c
        ok == res.r.k = "Ok"
        read == o.step = "accept" /\ o.read = "packet"
        got(pid) == IF read /\ res.r = OkSome(Message(2, pid)) THEN 1 ELSE 0
    IN  IF read /\ c.state = "Connected" /\ o.packet.t = "Publish"
           /\ o.packet.qos = 2 /\ ok
        THEN [pid |-> o.packet.pid, stage |-> 1,
              fresh |-> /\ \A i \in 1 .. Len(c.incomming_rec) :
                             c.incomming_rec[i].pid # o.packet.pid
                        /\ \A i \in 1 .. Len(c.incomming_rel) :
                             c.incomming_rel[i] # o.packet.pid,
              handed |-> got(o.packet.pid)]
        ELSE IF cy.stage = 1 /\ read /\ o.packet = Pubrel(cy.pid) /\ ok
        THEN [cy EXCEPT !.stage = 2, !.handed = @ + got(cy.pid)]
        ELSE IF cy.stage = 2 /\ o.step = "complete" /\ o.pid = cy.pid /\ ok
        THEN [cy EXCEPT !.stage = 3]
        ELSE IF /\ d.incomming_rec = c.incomming_rec
                /\ d.incomming_rel = c.incomming_rel
                /\ d.incomming_store = c.incomming_store
        THEN IF cy.stage > 0 THEN [cy EXCEPT !.handed = @ + got(cy.pid)] ELSE cy
        ELSE NoInCycle

\* the frame that runs next, "" when the user holds the client
Top == IF stack = <<>> THEN "" ELSE stack[Len(stack)]
\* the user holds a live client: no call is in progress
Idle == alive /\ stack = <<>>

\* what a step of a method leaves behind: stk is the call stack with the method's
\* own frame on top, res its outcome (a return, a call, or another turn of await)
Do(stk, res, o) ==
    /\ Commit(res.c)
    /\ op' = [o EXCEPT !.conn = res.c.conn]
    /\ out_cycle' = OutCycle(out_cycle, self, res, o)
    /\ in_cycle' = InCycle(in_cycle, self, res, o)
    /\ IF res.r.k = "Call"
       THEN stack' = Append(stk, res.r.e) /\ ret' = Running
       ELSE IF res.r = Running
       THEN stack' = stk /\ ret' = Running
       ELSE stack' = SubSeq(stk, 1, Len(stk) - 1) /\ ret' = res.r
    \* ClientOptions::connect hands out no Client when its handshake failed
    /\ alive' = (alive /\ ~(stk = <<"connect">> /\ res.r.k = "Err"))
    /\ UNCHANGED wire_vars

(* ------------------------ what the environment sends ------------------- *)

Codes == QoSs \cup {Failure}
SeqsUpTo(S, n) == UNION {[1 .. k -> S] : k \in 0 .. n}

\* the packets read_packet() can hand to accept(), by type
Connacks == {Connack(sp, code) : sp \in BOOLEAN, code \in ConnectReturnCodes}
Accepted == {Connack(TRUE, "Accepted")}
Publishes ==
    {Publish(Message(0, None))}
    \cup {Publish(Message(qos, pid)) : qos \in {1, 2}, pid \in InPids}
Pubacks == {Puback(pid) : pid \in 1 .. MaxAlloc}
Pubrecs == {Pubrec(pid) : pid \in 1 .. MaxAlloc}
Pubrels == {Pubrel(pid) : pid \in InPids}
Pubcomps == {Pubcomp(pid) : pid \in 1 .. MaxAlloc}
Subacks ==
    {Suback(pid, codes) : pid \in 1 .. MaxAlloc,
                          codes \in SeqsUpTo(Codes, MaxTopics + 1)}
Unsubacks == {Unsuback(pid) : pid \in 1 .. MaxAlloc}

\* the user's topic lists
SubTopicLists ==
    SeqsUpTo({SubscribeTopic(t, qos) : t \in Topics, qos \in QoSs}, MaxTopics)
UnsubTopicLists == SeqsUpTo(Topics, MaxTopics)

\* self.subscriptions.values().map(to_subscribe_topic): any order of the map
Orderings(subs) ==
    LET present == {t \in DOMAIN subs : subs[t].present}
        n == Cardinality(present)
    IN  {[i \in 1 .. n |-> SubscribeTopic(f[i], subs[f[i]].qos)] :
            f \in {g \in [1 .. n -> present] :
                      \A i, j \in 1 .. n : i # j => g[i] # g[j]}}

\* no I/O failure: every flush and every store operation succeeds
IoOk == {[flush |-> TRUE, store |-> TRUE]}

(* ------------------------------ the actions ---------------------------- *)
(* An action takes the sets its inputs are drawn from; each specification  *)
(* below offers the engine the traffic its claims are about.               *)

\* nothing decoded yet: f the function of the decoder that ran, e its MQError,
\* len and packet what it returned
NoRead == [f |-> "", e |-> "", len |-> 0, packet |-> NoPacket]

\* the fields of the Client
InitClient ==
    /\ state = "Disconnected"
    /\ session_present = FALSE
    /\ elapsed = 0
    /\ last_pid = zero
    /\ await_ping = FALSE
    /\ incomming_pub = <<>> /\ incomming_rec = <<>> /\ incomming_rel = <<>>
    /\ outgoing_ack = <<>> /\ outgoing_rec = <<>> /\ outgoing_comp = <<>>
    /\ await_suback = <<>> /\ await_unsuback = <<>>
    /\ subscriptions = [t \in Topics |-> NoSubscription]
    /\ opts_reconnect \in {"ForeverDisconnect", "ReconnectAfter"}
    /\ incomming_store \in {Store(TRUE), Store(FALSE)}
    /\ outgoing_store \in {Store(TRUE), Store(FALSE)}
    /\ sent = <<>>
    /\ stack = <<"connect">>
    /\ ret = Running
    /\ op = Op("connect", "")
    /\ out_cycle = NoOutCycle
    /\ in_cycle = NoInCycle
    /\ alive = TRUE

Init ==
    /\ InitClient
    /\ stream = <<>>
    /\ decoded = NoRead

\* time passes: last_flush.elapsed() grows (kept up to the keep-alive interval)
Tick ==
    /\ alive
    /\ elapsed < KeepAlive
    /\ elapsed' = elapsed + 1
    /\ op' = Op(op.f, "tick")
    /\ UNCHANGED <<out_cycle, in_cycle, wire_vars>>
    /\ UNCHANGED <<state, session_present, last_pid, await_ping,
                   incomming_pub, incomming_rec, incomming_rel,
                   outgoing_ack, outgoing_rec, outgoing_comp,
                   await_suback, await_unsuback, subscriptions,
                   opts_reconnect, incomming_store, outgoing_store,
                   sent, stack, ret, alive>>

\* ClientOptions::connect: the handshake of the new Client
ConnectBegin(ios) ==
    /\ Top = "connect" /\ ret = Running
    /\ \E io \in ios : Do(stack, _handshake(self, io), Op("connect", "connect"))

ConnectResume ==
    /\ Top = "connect" /\ ret # Running
    /\ Do(stack, connect_resume(self, ret), Op("connect", "connect_resume"))

UserPublish(qoss, ios) ==
    /\ Idle
    /\ \E qos \in qoss, io \in ios :
          Do(<<"publish">>, publish(self, qos, io),
             [Op("publish", "publish") EXCEPT !.qos = qos])

UserSubscribe(lists, ios) ==
    /\ Idle
    /\ \E topics \in lists, io \in ios :
          Do(<<"subscribe">>, subscribe(self, topics, io), Op("subscribe", "subscribe"))

UserUnsubscribe(lists, ios) ==
    /\ Idle
    /\ \E topics \in lists, io \in ios :
          Do(<<"unsubscribe">>, unsubscribe(self, topics, io),
             Op("unsubscribe", "unsubscribe"))

UserPing(ios) ==
    /\ Idle
    /\ \E io \in ios : Do(<<"ping">>, ping(self, io), Op("ping", "ping"))

UserComplete(pids, ios) ==
    /\ Idle
    /\ \E pid \in pids, io \in ios :
          Do(<<"complete">>, complete(self, pid, io),
             [Op("complete", "complete") EXCEPT !.pid = pid])

UserTerminate ==
    /\ Idle
    /\ Do(<<"terminate">>, Out(terminate(self), OkUnit), Op("terminate", "terminate"))

\* Client::set_reconnect
UserSetReconnect ==
    /\ Idle
    /\ \E method \in {"ForeverDisconnect", "ReconnectAfter"} :
          /\ method # opts_reconnect
          /\ Do(<<"set_reconnect">>, Out([self EXCEPT !.opts_reconnect = method], OkUnit),
                Op("set_reconnect", "set_reconnect"))

\* whether accept() gets as far as conn.read_packet()
Reading == state \in {"Connected", "Handshake"} /\ elapsed < KeepAlive

\* accept() called by f, with the call stack stk once its frame is pushed
Accept(f, stk, reads, packets, ios) ==
    \E read \in IF Reading THEN reads ELSE {""} :
        \E packet \in IF read = "packet" THEN packets ELSE {NoPacket}, io \in ios :
            Do(stk, accept(self, read, packet, io),
               [Op(f, "accept") EXCEPT !.read = read, !.packet = packet])

\* the user calls accept()
UserAccept(reads, packets, ios) ==
    Idle /\ Accept("accept", <<"accept">>, reads, packets, ios)

\* the user calls await(), which calls accept()
UserAwait(reads, packets, ios) ==
    Idle /\ Accept("await", <<"await", "accept">>, reads, packets, ios)

\* await() calls accept(): a turn of its loop, or the await() of a handshake
AwaitAccept(reads, packets, ios) ==
    /\ Top = "await" /\ ret = Running
    /\ Accept(op.f, Append(stack, "accept"), reads, packets, ios)

AwaitResume(ios) ==
    /\ Top = "await" /\ ret # Running
    /\ \E io \in ios :
          Do(stack, await_resume(self, ret, io),
             [op EXCEPT !.step = "await_resume"])

AcceptResume ==
    /\ Top = "accept" /\ ret # Running
    /\ Do(stack, accept_resume(self, ret), Op(op.f, "accept_resume"))

\* reconnect() called by f, with the call stack stk once its frame is pushed
Reconnect(f, stk, conns, ios) ==
    \E conn_ok \in conns, io \in ios :
        Do(stk, reconnect(self, conn_ok, io), Op(f, "reconnect"))

UserReconnect(conns, ios) ==
    Idle /\ Reconnect("reconnect", <<"reconnect">>, conns, ios)

TryReconnect(conns, ios) ==
    /\ Top = "reconnect" /\ ret = Running
    /\ Reconnect(op.f, stack, conns, ios)

ReconnectResume ==
    /\ Top = "reconnect" /\ ret # Running
    /\ \E subs \in Orderings(subscriptions) :
          Do(stack, reconnect_resume(self, ret, subs), Op(op.f, "reconnect_resume"))

\* the bounds on a state: queue lengths, allocations, nested reconnects
Nesting == Cardinality({i \in 1 .. Len(stack) : stack[i] = "reconnect"})
QueuesBounded ==
    /\ \A q \in {incomming_pub, incomming_rec, outgoing_ack, outgoing_rec,
                 await_suback, await_unsuback} : Len(q) <= MaxQueue
    /\ Len(incomming_rel) <= MaxQueue /\ Len(outgoing_comp) <= MaxQueue
Bounded ==
    /\ last_pid <= MaxAlloc
    /\ Nesting <= MaxNest
    /\ QueuesBounded

(* ------------- SpecOut: the outgoing QoS 1 and QoS 2 flows -------------- *)

OutPackets == Accepted \cup Pubacks \cup Pubrecs \cup Pubcomps

InitOut ==
    /\ Init
    /\ opts_reconnect = "ForeverDisconnect"
    /\ incomming_store = Store(FALSE)

NextOut ==
    \/ ConnectBegin(IOs)
    \/ ConnectResume
    \/ UserPublish(QoSs, IOs) /\ Bounded'
    \/ UserAccept({"packet"}, OutPackets, IOs)
    \/ UserAwait({"packet"}, OutPackets, IOs)
    \/ AwaitAccept({"packet"}, OutPackets, IOs)
    \/ AwaitResume(IOs)

SpecOut == InitOut /\ [][NextOut]_vars

(* -------------------- SpecIn: the incoming QoS 2 flow ------------------- *)

InPackets ==
    Accepted \cup {p \in Publishes : p.qos = 2} \cup Pubrels

InitIn ==
    /\ Init
    /\ opts_reconnect = "ForeverDisconnect"
    /\ outgoing_store = Store(FALSE)

NextIn ==
    \/ ConnectBegin(IOs)
    \/ ConnectResume
    \/ UserComplete(InPids, IOs)
    \/ UserAccept({"packet"}, InPackets, IOs) /\ Bounded'
    \/ AwaitAccept({"packet"}, InPackets, IOs) /\ Bounded'
    \/ AwaitResume(IOs)

SpecIn == InitIn /\ [][NextIn]_vars

(* ------------------------ claims checked in SpecOut --------------------- *)

\* C1: in state Connected a publish at QoS 1 appends to outgoing_ack exactly one
\* entry, which carries the newly allocated pid; a PUBACK with the pid of the head
\* entry removes exactly that entry and gives no error; a PUBACK with another pid,
\* or one that finds outgoing_ack empty, gives UnhandledPuback(pid).
C1_Step ==
    /\ (state = "Connected" /\ op'.step = "publish" /\ op'.qos = 1) =>
          /\ last_pid' = next(last_pid)
          /\ outgoing_ack' = Append(outgoing_ack, Message(1, last_pid'))
    /\ (state = "Connected" /\ op'.step = "accept" /\ op'.packet.t = "Puback") =>
          IF outgoing_ack # <<>> /\ Head(outgoing_ack).pid = op'.packet.pid
          THEN outgoing_ack' = Tail(outgoing_ack) /\ ret' = OkNone
          ELSE ret' = ErrPid("UnhandledPuback", op'.packet.pid)
C1_PubackFlow == [][C1_Step]_vars

\* two QoS 1 publishes, then the PUBACK of the first: the second is left
C1_Witness ==
    /\ op.step = "accept" /\ op.packet = Puback(1) /\ ret = OkNone
    /\ outgoing_ack = <<Message(1, 2)>>

\* C2: after publish() at QoS 2 allocated p with an outgoing store configured and
\* no other QoS 2 publish in flight, then the PUBREC of p (answered by PUBREL) and
\* then the PUBCOMP of p, each handled without error, outgoing_rec and
\* outgoing_comp are empty and outgoing_store holds no entry for p.
C2_SendCycle ==
    out_cycle.stage = 3 =>
        /\ outgoing_rec = <<>>
        /\ outgoing_comp = <<>>
        /\ out_cycle.pid \notin outgoing_store.keys

\* the PUBCOMP that ends the exchange has just been read
C2_Witness ==
    /\ out_cycle.stage = 3 /\ outgoing_store.present
    /\ op.step = "accept" /\ op.packet = Pubcomp(out_cycle.pid) /\ ret = OkNone

\* C4: whenever await() returns Ok(None), the state is Connected, await_ping is
\* false and every queue is empty: incomming_pub, incomming_rec, incomming_rel,
\* outgoing_ack, outgoing_rec, outgoing_comp, await_suback and await_unsuback.
C4_AwaitNone ==
    (op.step = "await_resume" /\ ret = OkNone) =>
        /\ state = "Connected" /\ ~await_ping
        /\ incomming_pub = <<>> /\ incomming_rec = <<>> /\ incomming_rel = <<>>
        /\ outgoing_ack = <<>> /\ outgoing_rec = <<>> /\ outgoing_comp = <<>>
        /\ await_suback = <<>> /\ await_unsuback = <<>>

(* ------------------------ claims checked in SpecIn ---------------------- *)

\* what C3 says of the queues, the store and the deliveries of the exchange
C3_Outcome ==
    /\ \A i \in 1 .. Len(incomming_rec) : incomming_rec[i].pid # in_cycle.pid
    /\ \A i \in 1 .. Len(incomming_rel) : incomming_rel[i] # in_cycle.pid
    /\ in_cycle.pid \notin incomming_store.keys
    /\ in_cycle.handed = 1

\* C3 as stated: after an inbound PUBLISH(QoS 2, p) answered by PUBREC(p), then
\* the inbound PUBREL(p), then complete(p) answered by PUBCOMP(p), with an
\* incoming store configured, incomming_rec and incomming_rel hold no entry for
\* p, incomming_store holds no entry for p, and accept() handed the message to
\* the user exactly once, on the PUBREL and not on the PUBLISH.
C3_ReceiveCycle_AnyStart ==
    /\ in_cycle.stage = 1 => in_cycle.handed = 0
    /\ in_cycle.stage = 2 => in_cycle.handed = 1
    /\ in_cycle.stage = 3 => C3_Outcome

\* C3, amended: the same, for an exchange that starts while neither incomming_rec
\* nor incomming_rel holds an entry for p (no earlier exchange with the pid p is
\* still pending when the PUBLISH arrives).
C3_ReceiveCycle ==
    in_cycle.fresh =>
        /\ in_cycle.stage = 1 => in_cycle.handed = 0
        /\ in_cycle.stage = 2 => in_cycle.handed = 1
        /\ in_cycle.stage = 3 => C3_Outcome

\* complete(p) has just ended an exchange that started with no entry for p
C3_Witness ==
    /\ in_cycle.stage = 3 /\ in_cycle.fresh /\ incomming_store.present
    /\ op.step = "complete" /\ op.pid = in_cycle.pid /\ ret = OkUnit
    /\ sent = <<Pubcomp(in_cycle.pid)>>

\* C7: complete(pid) succeeds only if pid is the most recently added entry of
\* incomming_rel; on success it writes exactly one PUBCOMP(pid), removes that
\* entry and deletes pid from incomming_store; if pid is not that entry, or
\* incomming_rel is empty, it returns ProtocolViolation and writes no PUBCOMP.
C7_Step ==
    op'.step = "complete" =>
        LET n == Len(incomming_rel)
            pid == op'.pid
            newest == n > 0 /\ incomming_rel[n] = pid
        IN  /\ ret'.k = "Ok" =>
                 /\ newest
                 /\ sent' = <<Pubcomp(pid)>>
                 /\ incomming_rel' = SubSeq(incomming_rel, 1, n - 1)
                 /\ pid \notin incomming_store'.keys
            /\ ~newest => ret' = Err("ProtocolViolation") /\ sent' = <<>>
C7_Complete == [][C7_Step]_vars

\* the newer of two delivered messages has been completed, the older is left
C7_Witness ==
    /\ op.step = "complete" /\ op.pid = 2 /\ ret = OkUnit
    /\ incomming_rel = <<1>> /\ sent = <<Pubcomp(2)>>
    /\ incomming_store.keys = {1}

(* ------- SpecStore: QoS 2 traffic in both directions, stores or none ---- *)

StorePackets == Accepted \cup {p \in Publishes : p.qos = 2}

InitStore ==
    /\ Init
    /\ opts_reconnect = "ForeverDisconnect"

NextStore ==
    \/ ConnectBegin(IOs)
    \/ ConnectResume
    \/ UserPublish({2}, IOs) /\ Bounded'
    \/ UserAccept({"packet"}, StorePackets, IOs) /\ Bounded'
    \/ AwaitAccept({"packet"}, StorePackets, IOs) /\ Bounded'
    \/ AwaitResume(IOs)

SpecStore == InitStore /\ [][NextStore]_vars

\* C8: publish() at QoS 2 with no outgoing store returns OutgoingStorageAbsent
\* and writes no PUBLISH; an inbound QoS 2 PUBLISH with no incoming store makes
\* accept() return IncommingStorageAbsent, and no PUBREC is written.
C8_Step ==
    /\ (op'.step = "publish" /\ op'.qos = 2 /\ ~outgoing_store.present) =>
          /\ ret' = Err("OutgoingStorageAbsent")
          /\ \A i \in 1 .. Len(sent') : sent'[i].t # "Publish"
    /\ (state = "Connected" /\ op'.step = "accept"
        /\ op'.packet.t = "Publish" /\ op'.packet.qos = 2
        /\ ~incomming_store.present) =>
          /\ ret' = Err("IncommingStorageAbsent")
          /\ \A i \in 1 .. Len(sent') : sent'[i].t # "Pubrec"
C8_StorageAbsent == [][C8_Step]_vars

\* a client with neither store: accept() has refused a QoS 2 PUBLISH after
\* publish() refused a QoS 2 message, which used up pid 1
C8_Witness ==
    /\ ~outgoing_store.present /\ ~incomming_store.present
    /\ last_pid = 1 /\ outgoing_rec = <<>>
    /\ op.f = "accept" /\ op.packet.t = "Publish" /\ op.packet.qos = 2
    /\ ret = Err("IncommingStorageAbsent") /\ sent = <<>>

(* ------------------- SpecKeep: the keep-alive cycle --------------------- *)

KeepPackets == Accepted \cup {Pingresp} \cup Pubacks
KeepReads == {"packet", "timeout"}

InitKeep ==
    /\ Init
    /\ opts_reconnect = "ForeverDisconnect"
    /\ incomming_store = Store(FALSE)
    /\ outgoing_store = Store(FALSE)

NextKeep ==
    \/ Tick
    \/ ConnectBegin(IOs)
    \/ ConnectResume
    \/ UserPublish({1}, IOs) /\ Bounded'
    \/ UserPing(IOs)
    \/ UserAwait(KeepReads, KeepPackets, IOs)
    \/ AwaitAccept(KeepReads, KeepPackets, IOs)
    \/ AwaitResume(IOs)

SpecKeep == InitKeep /\ [][NextKeep]_vars

\* await() is at the point where accept() has returned Timeout to it
TimeoutInAwait == Top = "await" /\ ret = Err("Timeout") /\ op'.step = "await_resume"

\* C5: if the state is Connected, await_ping is false and the keep-alive interval
\* has elapsed since the last flush, the next call of await() writes exactly one
\* PINGREQ and sets await_ping: its accept() returns Timeout without a read and
\* without a change, and await() answers that with the PINGREQ.
C5_Step ==
    /\ (Idle /\ state = "Connected" /\ ~await_ping /\ elapsed >= KeepAlive
        /\ op'.f = "await" /\ op'.step = "accept") =>
          /\ ret' = Err("Timeout") /\ stack' = <<"await">>
          /\ sent' = <<>> /\ op'.read = ""
          /\ state' = "Connected" /\ ~await_ping' /\ elapsed' = elapsed
    /\ (TimeoutInAwait /\ state = "Connected" /\ ~await_ping) =>
          /\ sent' = <<Pingreq>>
          /\ await_ping'
C5_KeepAlivePing == [][C5_Step]_vars

\* the await() that found the interval elapsed has written its PINGREQ
C5_Witness ==
    /\ op.f = "await" /\ op.step = "await_resume" /\ op.read = ""
    /\ state = "Connected" /\ await_ping /\ sent = <<Pingreq>>

\* C6: a keep-alive timeout inside await() while Connected with await_ping still
\* set closes the transport and sets the state to Disconnected, and no second
\* PINGREQ is written; a PINGRESP read in between clears await_ping, and the next
\* timeout then writes a PINGREQ again and leaves the state Connected.
C6_Step ==
    /\ (TimeoutInAwait /\ state = "Connected" /\ await_ping) =>
          /\ state' = "Disconnected"
          /\ sent' = <<>>
    /\ (state = "Connected" /\ op'.step = "accept" /\ op'.packet = Pingresp) =>
          /\ ~await_ping' /\ ret' = OkNone
    /\ (TimeoutInAwait /\ state = "Connected" /\ ~await_ping) =>
          /\ state' = "Connected"
          /\ \E i \in 1 .. Len(sent') : sent'[i] = Pingreq
C6_PingTimeout == [][C6_Step]_vars

\* await() has unbound the client on a read timeout: only a timeout with
\* await_ping set leaves await() running on a Disconnected client
C6_Witness ==
    /\ op.f = "await" /\ op.step = "await_resume" /\ op.read = "timeout"
    /\ state = "Disconnected" /\ ret = Running /\ ~await_ping /\ sent = <<>>

(* ------------- SpecPid: the pid counter over its whole range ------------ *)
(* last_pid runs through all of 1..PidMax and wraps.  The client has no     *)
(* outgoing store, so that publish() at QoS 2 takes a pid and queues        *)
(* nothing.  The operations that queue an entry under their pid are offered *)
(* only now and then, which keeps the queues short: publish() at QoS 1 for  *)
(* the pids 1..EarlyPubs, subscribe() and unsubscribe() for the first pid   *)
(* and for the pid after PidMax.                                            *)

PidSubs == {<<SubscribeTopic("a", 0)>>}
PidUnsubs == {<<"a">>}
InFlight == Len(outgoing_ack) + Len(await_suback) + Len(await_unsuback)
Early == next(last_pid) <= EarlyPubs /\ InFlight < MaxQueue
AtWrap == last_pid \in {zero, PidMax} /\ InFlight < MaxQueue

InitPid ==
    /\ Init
    /\ opts_reconnect = "ForeverDisconnect"
    /\ incomming_store = Store(FALSE)
    /\ outgoing_store = Store(FALSE)

NextPid ==
    \/ ConnectBegin(IoOk)
    \/ ConnectResume
    \/ AwaitAccept({"packet"}, Accepted, IoOk)
    \/ AwaitResume(IoOk)
    \/ UserPublish({2}, IoOk)
    \/ Early /\ UserPublish({1}, IoOk)
    \/ AtWrap /\ UserSubscribe(PidSubs, IoOk)
    \/ AtWrap /\ UserUnsubscribe(PidUnsubs, IoOk)

SpecPid == InitPid /\ [][NextPid]_vars

\* C9: in every reachable state the pids of the entries of outgoing_ack and
\* outgoing_rec are pairwise distinct, also after the pid counter has wrapped.
C9_DistinctPids ==
    LET inflight == outgoing_ack \o outgoing_rec
    IN  \A i, j \in 1 .. Len(inflight) :
            i # j => inflight[i].pid # inflight[j].pid

\* the step allocates a pid: publish at QoS 1 or 2, subscribe, unsubscribe
Allocates ==
    \/ op'.step = "publish" /\ op'.qos \in {1, 2}
    \/ op'.step \in {"subscribe", "unsubscribe"}

\* C10: every pid allocated by publish (QoS 1 or 2), subscribe or unsubscribe
\* lies in 1..0xFFFF and is the successor of the pid allocated before it: the
\* counter starts at 0, the first allocation gives 1, and the allocation after
\* 0xFFFF gives 1, never 0.
C10_Step ==
    IF Allocates
    THEN /\ last_pid' \in 1 .. 65535
         /\ last_pid' = IF last_pid = 65535 THEN 1 ELSE last_pid + 1
         /\ \A i \in 1 .. Len(sent') : sent'[i].pid = last_pid'
    ELSE last_pid' = last_pid
C10_PidSequence == last_pid = 0 /\ [][C10_Step]_vars

\* the counter has wrapped: last_pid is 1 again while the QoS 1 publishes that
\* were given the pids 1 and 2 are still unacknowledged
C10_Witness ==
    /\ last_pid = 1 /\ op.step = "publish" /\ op.qos = 2
    /\ outgoing_ack = <<Message(1, 1), Message(1, 2)>>

(* ---------------------- more claims checked in SpecOut ------------------ *)

\* pid is the pid of a later entry of the queue while its head has another pid
Later(pids, pid) ==
    Len(pids) >= 2 /\ pids[1] # pid /\ \E i \in 2 .. Len(pids) : pids[i] = pid
PidsOf(messages) == [i \in 1 .. Len(messages) |-> messages[i].pid]

\* C11: while two publishes of the same QoS are in flight, an acknowledgement
\* (PUBACK for QoS 1, PUBREC or PUBCOMP for QoS 2) that names the pid of the
\* later one before the earlier one has been acknowledged is answered with an
\* error: accept() does not take it for a valid acknowledgement.
C11_Step ==
    (state = "Connected" /\ op'.step = "accept" /\ op'.read = "packet") =>
        LET pid == op'.packet.pid
            early == CASE op'.packet.t = "Puback" -> Later(PidsOf(outgoing_ack), pid)
                       [] op'.packet.t = "Pubrec" -> Later(PidsOf(outgoing_rec), pid)
                       [] op'.packet.t = "Pubcomp" -> Later(outgoing_comp, pid)
                       [] OTHER -> FALSE
        IN  early => ret'.k = "Err"
C11_AckOrder == [][C11_Step]_vars

(* ------- SpecRe: loss of the connection, reconnect and handshake -------- *)

ReReads == {"packet", "timeout", "eof", "lost", "io"}
ReSubs == {<<SubscribeTopic("a", 0)>>, <<SubscribeTopic("b", 1)>>}
RePackets ==
    Connacks \cup {Puback(1), Pingresp}
    \cup {p \in Subacks : Len(p.codes) = 1 /\ p.codes[1] \in {1, Failure}}

InitRe ==
    /\ Init
    /\ incomming_store = Store(FALSE)
    /\ outgoing_store = Store(FALSE)

NextRe ==
    \/ ConnectBegin(IoOk)
    \/ ConnectResume
    \/ UserPublish({1}, IoOk) /\ Bounded'
    \/ UserSubscribe(ReSubs, IoOk) /\ Bounded'
    \/ UserTerminate
    \/ UserAccept(ReReads, RePackets, IoOk)
    \/ UserAwait(ReReads, RePackets, IoOk)
    \/ AwaitAccept(ReReads, RePackets, IoOk)
    \/ AwaitResume(IoOk)
    \/ AcceptResume
    \/ UserReconnect(BOOLEAN, IoOk)
    \/ TryReconnect(BOOLEAN, IoOk) /\ Bounded'
    \/ ReconnectResume /\ Bounded'

SpecRe == InitRe /\ [][NextRe]_vars


(* -------------------------- claims checked in SpecRe -------------------- *)

\* C12: in state Handshake a CONNACK with return code Accepted makes the client
\* Connected and stores the packet's session-present flag; a CONNACK with another
\* code is answered with ConnectionRefused carrying that code and any other
\* packet with HandshakeFailed, and neither makes the client Connected.
C12_Step ==
    (state = "Handshake" /\ op'.step = "accept" /\ op'.read = "packet") =>
        LET packet == op'.packet
        IN  CASE packet.t = "Connack" /\ packet.code = "Accepted" ->
                   /\ ret' = OkNone
                   /\ state' = "Connected"
                   /\ session_present' = packet.sp
              [] packet.t = "Connack" /\ packet.code # "Accepted" ->
                   /\ ret' = ErrCode("ConnectionRefused", packet.code)
                   /\ state' # "Connected"
              [] OTHER ->
                   /\ ret' = Err("HandshakeFailed")
                   /\ state' # "Connected"
C12_Handshake == [][C12_Step]_vars

\* the handshake of a reconnect() was accepted with the session-present flag set
C12_Witness ==
    /\ op.f = "reconnect" /\ op.step = "accept"
    /\ op.packet = Connack(TRUE, "Accepted")
    /\ state = "Connected" /\ session_present

\* C13: under ReconnectAfter, when a read of accept() in state Connected meets
\* the end of the stream or a lost connection, accept() goes on to reconnect();
\* that reconnect() tries to open a new stream and, when it got one, writes
\* CONNECT on it; once the handshake has succeeded it writes one SUBSCRIBE
\* listing the topic paths of subscriptions.
C13_Step ==
    /\ (/\ opts_reconnect = "ReconnectAfter" /\ state = "Connected"
        /\ op'.step = "accept" /\ op'.read \in {"eof", "lost"})
           => (stack' # <<>> /\ stack'[Len(stack')] = "reconnect" /\ ret' = Running)
    /\ (/\ Top = "reconnect" /\ ret = Running
        /\ op.step = "accept" /\ op.read \in {"eof", "lost"}
        /\ op'.step = "reconnect")
           => /\ op'.conn # ""
              /\ op'.conn = "opened" => sent' = <<Connect>>
    /\ (op'.step = "reconnect_resume" /\ ret.k = "Ok")
           => \E subs \in Orderings(subscriptions) :
                 sent' = <<Subscribe(last_pid', subs)>>
C13_ReconnectOnLoss == [][C13_Step]_vars

\* the errors of accept() that end the session without an unbind
SessionErrors ==
    {"ProtocolViolation", "HandshakeFailed", "UnhandledPuback", "UnhandledPubrec",
     "UnhandledPubrel", "UnhandledPubcomp"}

\* C14: when the user's accept() has returned ProtocolViolation, HandshakeFailed
\* or an Unhandled* error, the reconnect() the user calls next tries to open a
\* new stream and, when it got one, runs the handshake on it: state Handshake,
\* CONNECT written.
C14_Step ==
    (/\ Idle /\ op.f = "accept" /\ op.step = "accept"
     /\ ret.k = "Err" /\ ret.e \in SessionErrors
     /\ op'.f = "reconnect" /\ op'.step = "reconnect")
        => /\ op'.conn # ""
           /\ op'.conn = "opened" => (sent' = <<Connect>> /\ state' = "Handshake")
C14_ExplicitReconnect == [][C14_Step]_vars


\* a reconnect() is in progress
InReconnect == \E i \in 1 .. Len(stack) : stack[i] = "reconnect"
\* a step of reconnect()'s own body: up to the handshake's wait, and after it
ReconnectStep == op'.step \in {"reconnect", "reconnect_resume"}
\* the only steps that change subscriptions: accept() dispatching an acknowledgement
\* of a SUBSCRIBE or an UNSUBSCRIBE
SubscriptionsFrame ==
    subscriptions' # subscriptions =>
        (op'.step = "accept" /\ op'.packet.t \in {"Suback", "Unsuback"})

\* C15 as stated: from the call of reconnect() to its return the subscription map
\* stays as it was, and an entry changes only when a SUBACK is processed.
C15_Stated ==
    /\ (InReconnect \/ ReconnectStep) => subscriptions' = subscriptions
    /\ SubscriptionsFrame
C15_MapKept == [][C15_Stated]_vars

\* C15, amended: the steps of reconnect() itself (opening the stream, CONNECT,
\* the SUBSCRIBE of the resubscribe) never change subscriptions, and no step
\* inside reconnect() changes it while no SUBSCRIBE or UNSUBSCRIBE is awaiting
\* its acknowledgement; an entry changes only when accept() processes a SUBACK
\* or an UNSUBACK.
C15_Step ==
    /\ ReconnectStep => subscriptions' = subscriptions
    /\ (InReconnect /\ await_suback = <<>> /\ await_unsuback = <<>>)
           => subscriptions' = subscriptions
    /\ SubscriptionsFrame
C15_Resubscribe == [][C15_Step]_vars

\* a reconnect() has resubscribed to a non-empty map
C15_Witness ==
    /\ op.step = "reconnect_resume" /\ ret = OkUnit
    /\ subscriptions["a"].present
    /\ Len(sent) = 1 /\ sent[1].t = "Subscribe" /\ Len(sent[1].topics) = 1

PubQueues ==
    <<incomming_pub, incomming_rec, incomming_rel,
      outgoing_ack, outgoing_rec, outgoing_comp>>

\* the steps that unbind: terminate(), the second keep-alive timeout of await(),
\* and a read of accept() that fails with a lost connection or another I/O error
UnbindStep ==
    \/ op'.step = "terminate"
    \/ TimeoutInAwait /\ state = "Connected" /\ await_ping
    \/ op'.step = "accept" /\ op'.read \in {"lost", "io"}
UnbindEffect ==
    UnbindStep =>
        /\ await_suback' = <<>> /\ await_unsuback' = <<>>
        /\ ~await_ping' /\ state' = "Disconnected"
        /\ UNCHANGED <<PubQueues, subscriptions, last_pid>>

\* C16 as stated: every unbind empties the two wait queues, clears await_ping,
\* sets state Disconnected and leaves the publish queues, subscriptions and
\* last_pid alone; from the call of a later reconnect() to its return the publish
\* queues stay as they were.
C16_Stated ==
    /\ UnbindEffect
    /\ (InReconnect \/ ReconnectStep) => UNCHANGED PubQueues
C16_QueuesKept == [][C16_Stated]_vars

\* C16, amended: every unbind has that effect; the steps of reconnect() itself
\* leave the publish queues alone, and inside reconnect() they change only when
\* the wait of its handshake, once Connected, dispatches a packet.
C16_Step ==
    /\ UnbindEffect
    /\ ReconnectStep => UNCHANGED PubQueues
    /\ (InReconnect /\ PubQueues' # PubQueues)
           => (state = "Connected" /\ op'.step = "accept" /\ op'.read = "packet")
C16_Unbind == [][C16_Step]_vars

\* after an unbind, reconnect() opened a stream with a publish still in flight
C16_Witness ==
    /\ op.step = "reconnect" /\ op.conn = "opened" /\ state = "Handshake"
    /\ outgoing_ack # <<>>
    /\ await_suback = <<>> /\ await_unsuback = <<>> /\ ~await_ping

\* the Client's fields
ClientFields ==
    <<state, session_present, elapsed, last_pid, await_ping, PubQueues,
      await_suback, await_unsuback, subscriptions, opts_reconnect,
      incomming_store, outgoing_store>>

\* C17: reconnect() called in state Connected returns Ok at once: it opens no
\* stream, writes no packet, allocates no pid and changes no field of the
\* client, so calling it again has the same effect.
C17_Step ==
    (state = "Connected" /\ op'.step = "reconnect") =>
        /\ ret' = OkUnit
        /\ op'.conn = "" /\ sent' = <<>>
        /\ UNCHANGED ClientFields
C17_AlreadyConnected == [][C17_Step]_vars

\* the user's reconnect() returned Ok on a Connected client with a publish in flight
C17_Witness ==
    /\ op.f = "reconnect" /\ op.step = "reconnect" /\ ret = OkUnit
    /\ state = "Connected" /\ outgoing_ack # <<>>

\* C19: under ForeverDisconnect an accept() whose read meets the end of the
\* stream or a lost connection returns Disconnected, and an accept() in state
\* Disconnected returns Disconnected, opens no stream, calls no reconnect(),
\* writes nothing and changes no field of the client.
C19_Step ==
    /\ (/\ opts_reconnect = "ForeverDisconnect"
        /\ op'.step = "accept" /\ op'.read \in {"eof", "lost"})
           => ret' = Err("Disconnected")
    /\ (/\ opts_reconnect = "ForeverDisconnect" /\ state = "Disconnected"
        /\ op'.step = "accept")
           => /\ ret' = Err("Disconnected")
              /\ (stack' = <<>> \/ stack'[Len(stack')] # "reconnect")
              /\ op'.conn = "" /\ sent' = <<>>
              /\ UNCHANGED ClientFields
C19_ForeverDisconnect == [][C19_Step]_vars

\* accept() on a Disconnected client with a publish in flight, no reconnect allowed
C19_Witness ==
    /\ opts_reconnect = "ForeverDisconnect" /\ state = "Disconnected"
    /\ op.step = "accept" /\ op.read = "" /\ ret = Err("Disconnected")
    /\ outgoing_ack # <<>>


(* ----------------- SpecSub: SUBSCRIBE and its acknowledgement ----------- *)

\* SUBSCRIBEs that ask for QoS 1; SUBACKs that grant QoS 0 or refuse
SubLists ==
    {topics \in SubTopicLists : \A i \in 1 .. Len(topics) : topics[i].qos = 1}
SubPackets ==
    Accepted
    \cup {p \in Subacks : \A i \in 1 .. Len(p.codes) : p.codes[i] \in {0, Failure}}

InitSub ==
    /\ Init
    /\ opts_reconnect = "ForeverDisconnect"
    /\ incomming_store = Store(FALSE)
    /\ outgoing_store = Store(FALSE)

NextSub ==
    \/ ConnectBegin(IoOk)
    \/ ConnectResume
    \/ AwaitAccept({"packet"}, SubPackets, IoOk)
    \/ AwaitResume(IoOk)
    \/ UserSubscribe(SubLists, IoOk) /\ Bounded'
    \/ UserAccept({"packet"}, SubPackets, IoOk)

SpecSub == InitSub /\ [][NextSub]_vars

\* the SUBACK does not answer the SUBSCRIBE at the head of await_suback: there is
\* none, or the pid or the number of return codes differs
Unmatched(suback) ==
    \/ await_suback = <<>>
    \/ Head(await_suback).pid # suback.pid
    \/ Len(Head(await_suback).topics) # Len(suback.codes)

\* C18: in state Connected a SUBACK whose number of return codes differs from the
\* number of topics of the SUBSCRIBE at the head of await_suback, or whose pid
\* differs from that head's pid, or that arrives while await_suback is empty, is
\* answered with ProtocolViolation and installs no subscription.
C18_Step ==
    (/\ state = "Connected" /\ op'.step = "accept" /\ op'.read = "packet"
     /\ op'.packet.t = "Suback" /\ Unmatched(op'.packet))
        => /\ ret' = Err("ProtocolViolation")
           /\ subscriptions' = subscriptions
C18_Suback == [][C18_Step]_vars

\* a SUBACK with more return codes than a SUBSCRIBE can have topics, naming the
\* pid of the only SUBSCRIBE sent, was rejected
C18_Witness ==
    /\ state = "Connected" /\ op.step = "accept" /\ op.packet.t = "Suback"
    /\ last_pid = 1 /\ op.packet.pid = 1
    /\ Len(op.packet.codes) = MaxTopics + 1 /\ op.packet.codes[1] # Failure
    /\ ret = Err("ProtocolViolation")
    /\ \A t \in Topics : ~subscriptions[t].present


(* ------------- SpecCodec: PUBLISH on the wire and in the engine --------- *)

\* mqtt3::MULTIPLIER: a remaining length has at most four bytes
MULTIPLIER == 128 * 128 * 128 * 128

\* Result of a read: the value read and the bytes left, or an MQError
Read(v, rest) == [e |-> "", v |-> v, rest |-> rest]
ReadErr(e) == [e |-> e, v |-> 0, rest |-> <<>>]

\* a read_remaining_length that adds the whole byte, the continuation bit too
RECURSIVE remaining_length_NoMask(_, _, _)
remaining_length_NoMask(bytes, mult, len) ==
    IF bytes = <<>> THEN ReadErr("UnexpectedEof")
    ELSE LET byte == Head(bytes)
         IN  IF mult > MULTIPLIER \div 128 THEN ReadErr("MalformedRemainingLength")
             ELSE IF byte < 128 THEN Read(len + byte * mult, Tail(bytes))
             ELSE remaining_length_NoMask(Tail(bytes), mult * 128, len + byte * mult)

\* MqttRead::read_remaining_length: seven bits of the length from each byte, the
\* lowest first, until a byte with the top bit clear
RECURSIVE remaining_length(_, _, _)
remaining_length(bytes, mult, len) ==
    IF bytes = <<>> THEN ReadErr("UnexpectedEof")
    ELSE LET byte == Head(bytes)
         IN  \* mult * 0x80 > MULTIPLIER, by a quotient: the product for a fifth
             \* byte is beyond the integers of TLC
             IF mult > MULTIPLIER \div 128 THEN ReadErr("MalformedRemainingLength")
             ELSE IF byte < 128 THEN Read(len + (byte % 128) * mult, Tail(bytes))
             ELSE remaining_length(Tail(bytes), mult * 128, len + (byte % 128) * mult)
read_remaining_length(bytes) == remaining_length(bytes, 1, 0)

\* ReadBytesExt::read_u8 and read_u16::<BigEndian>
read_u8(bytes) ==
    IF bytes = <<>> THEN ReadErr("UnexpectedEof") ELSE Read(Head(bytes), Tail(bytes))
read_u16(bytes) ==
    IF Len(bytes) < 2 THEN ReadErr("UnexpectedEof")
    ELSE Read(bytes[1] * 256 + bytes[2], SubSeq(bytes, 3, Len(bytes)))

\* Read::take(len): at most len bytes of what the stream holds
take(bytes, len) == SubSeq(bytes, 1, IF len < Len(bytes) THEN len ELSE Len(bytes))

\* String::from_utf8 on the bytes used here: ASCII is valid, 0xFF never is
from_utf8_ok(data) == \A i \in 1 .. Len(data) : data[i] < 128

\* MqttRead::read_mqtt_string: the length prefix, then up to that many bytes; a
\* string is the sequence of its bytes
read_mqtt_string(bytes) ==
    LET len == read_u16(bytes)
    IN  IF len.e # "" THEN len
        ELSE LET data == take(len.rest, len.v)
             IN  IF from_utf8_ok(data)
                 THEN Read(data, SubSeq(len.rest, Len(data) + 1, Len(len.rest)))
                 ELSE [ReadErr("TopicNameMustNotContainNonUtf8") EXCEPT
                         !.rest = SubSeq(len.rest, Len(data) + 1, Len(len.rest))]

\* Header: the packet type, the QoS bits, dup and retain of the first byte
HeaderTyp(hd) == hd \div 16
HeaderQos(hd) == (hd \div 2) % 4
HeaderDup(hd) == (hd \div 8) % 2 = 1
HeaderRetain(hd) == hd % 2 = 1
\* Header::new: the MQError for a first byte that is no fixed header, or ""
HeaderNew(hd) ==
    CASE HeaderTyp(hd) \in {0, 15} -> "UnsupportedPacketType"
      [] HeaderTyp(hd) \in {6, 8, 10} /\ hd % 16 # 2 -> "IncorrectPacketFormat"
      [] OTHER -> ""
\* QoS::from_u8
QosOk(byte) == byte \in QoSs

\* ConnectReturnCode::from_u8
ReturnCodes ==
    <<"Accepted", "UnacceptableProtocolVersion", "IdentifierRejected",
      "ServerUnavailable", "BadUsernamePassword", "NotAuthorized">>

\* the outcome of a panic: the program is aborted
Panic == ReadErr("panic")

\* the bytes of "MQTT" and of "MQIsdp"
MQTT == <<77, 81, 84, 84>>
MQIsdp == <<77, 81, 73, 115, 100, 112>>
\* Protocol::new: the MQError for an unknown protocol name or level, or ""
ProtocolNew(name, level) ==
    CASE name = MQTT -> IF level = 4 THEN "" ELSE "UnsupportedProtocolVersion"
      [] name = MQIsdp -> IF level = 3 THEN "" ELSE "UnsupportedProtocolVersion"
      [] OTHER -> "UnsupportedProtocolName"

\* a string that is read when the flag is set
read_optional(flag, bytes) ==
    IF flag THEN read_mqtt_string(bytes) ELSE Read(<<>>, bytes)

\* MqttRead::read_connect; of the Connect it builds the model keeps the variant
read_connect(raw_packet) ==
    LET protocol_name == read_mqtt_string(raw_packet)
        protocol_level == read_u8(protocol_name.rest)
        connect_flags == read_u8(protocol_level.rest)
        keep_alive == read_u16(connect_flags.rest)
        client_id == read_mqtt_string(keep_alive.rest)
        will == (connect_flags.v \div 4) % 2 = 1
        will_topic == read_optional(will, client_id.rest)
        will_message == read_optional(will, will_topic.rest)
        username == read_optional(connect_flags.v \div 128 = 1, will_message.rest)
        password == read_optional((connect_flags.v \div 64) % 2 = 1, username.rest)
    IN  CASE protocol_name.e # "" -> ReadErr(protocol_name.e)
          [] protocol_level.e # "" -> ReadErr(protocol_level.e)
          [] ProtocolNew(protocol_name.v, protocol_level.v) # "" ->
               ReadErr(ProtocolNew(protocol_name.v, protocol_level.v))
          [] connect_flags.e # "" -> ReadErr(connect_flags.e)
          [] keep_alive.e # "" -> ReadErr(keep_alive.e)
          [] client_id.e # "" -> ReadErr(client_id.e)
          [] ~will /\ (connect_flags.v \div 8) % 8 # 0 ->
               ReadErr("IncorrectPacketFormat")
          [] will_topic.e # "" -> ReadErr(will_topic.e)
          [] will_message.e # "" -> ReadErr(will_message.e)
          [] will /\ ~QosOk((connect_flags.v \div 8) % 4) ->
               ReadErr("UnsupportedQualityOfService")
          [] username.e # "" -> ReadErr(username.e)
          [] password.e # "" -> ReadErr(password.e)
          [] OTHER -> Read(Connect, password.rest)

\* MqttRead::read_connack
read_connack(len, raw_packet) ==
    LET flags == read_u8(raw_packet)
        return_code == read_u8(flags.rest)
    IN  CASE len # 2 -> ReadErr("PayloadSizeIncorrect")
          [] flags.e # "" -> ReadErr(flags.e)
          [] return_code.e # "" -> ReadErr(return_code.e)
          [] return_code.v > 5 -> ReadErr("UnsupportedConnectReturnCode")
          [] OTHER -> Read(Connack(flags.v % 2 = 1, ReturnCodes[return_code.v + 1]),
                           return_code.rest)

\* a read_publish that reads a pid whatever the QoS bits are
read_publish_AlwaysPid(hd, raw_packet) ==
    LET topic_name == read_mqtt_string(raw_packet)
        pid == read_u16(topic_name.rest)
    IN  IF pid.e # "" THEN ReadErr(pid.e)
        ELSE IF topic_name.e # "" THEN ReadErr(topic_name.e)
        ELSE Read([Publish(Message(HeaderQos(hd), pid.v)) EXCEPT
                      !.dup = HeaderDup(hd), !.retain = HeaderRetain(hd),
                      !.topic_name = topic_name.v, !.payload = pid.rest], <<>>)

\* MqttRead::read_publish on the bytes of the packet's body; header.qos() is an
\* error for the QoS bits 11, and its first use unwraps it
read_publish(hd, raw_packet) ==
    LET topic_name == read_mqtt_string(raw_packet)
        pid == IF HeaderQos(hd) # 0 THEN read_u16(topic_name.rest)
               ELSE Read(None, topic_name.rest)
    IN  IF ~QosOk(HeaderQos(hd)) THEN Panic
        ELSE IF pid.e # "" THEN ReadErr(pid.e)
        ELSE IF topic_name.e # "" THEN ReadErr(topic_name.e)
        ELSE Read([Publish(Message(HeaderQos(hd), pid.v)) EXCEPT
                      !.dup = HeaderDup(hd), !.retain = HeaderRetain(hd),
                      !.topic_name = topic_name.v, !.payload = pid.rest], <<>>)

\* the packets that are a pid and nothing else
read_pid(len, raw_packet, t) ==
    LET pid == read_u16(raw_packet)
    IN  CASE len # 2 -> ReadErr("PayloadSizeIncorrect")
          [] pid.e # "" -> ReadErr(pid.e)
          [] OTHER -> Read([Pkt(t) EXCEPT !.pid = pid.v], pid.rest)

\* the loop of MqttRead::read_subscribe
RECURSIVE subscribe_topics(_, _, _)
subscribe_topics(remaining_bytes, bytes, topics) ==
    IF remaining_bytes <= 0 THEN Read(topics, bytes)
    ELSE LET topic_filter == read_mqtt_string(bytes)
             requested_qod == read_u8(topic_filter.rest)
         IN  CASE topic_filter.e # "" -> ReadErr(topic_filter.e)
               [] requested_qod.e # "" -> ReadErr(requested_qod.e)
               [] ~QosOk(requested_qod.v) -> ReadErr("UnsupportedQualityOfService")
               [] OTHER ->
                    subscribe_topics(
                        remaining_bytes - (Len(topic_filter.v) + 3),
                        requested_qod.rest,
                        Append(topics, SubscribeTopic(topic_filter.v, requested_qod.v)))

\* MqttRead::read_subscribe
read_subscribe(len, raw_packet) ==
    LET pid == read_u16(raw_packet)
        topics == subscribe_topics(len - 2, pid.rest, <<>>)
    IN  CASE pid.e # "" -> ReadErr(pid.e)
          [] topics.e # "" -> ReadErr(topics.e)
          [] OTHER -> Read(Subscribe(pid.v, topics.v), topics.rest)

\* the loop of MqttRead::read_suback
RECURSIVE return_codes(_, _, _)
return_codes(remaining_bytes, bytes, codes) ==
    IF remaining_bytes <= 0 THEN Read(codes, bytes)
    ELSE LET return_code == read_u8(bytes)
         IN  CASE return_code.e # "" -> ReadErr(return_code.e)
               [] return_code.v >= 128 ->
                    return_codes(remaining_bytes - 1, return_code.rest,
                                 Append(codes, Failure))
               [] ~QosOk(return_code.v % 4) -> ReadErr("UnsupportedQualityOfService")
               [] OTHER ->
                    return_codes(remaining_bytes - 1, return_code.rest,
                                 Append(codes, return_code.v % 4))

\* MqttRead::read_suback
read_suback(len, raw_packet) ==
    LET pid == read_u16(raw_packet)
        codes == return_codes(len - 2, pid.rest, <<>>)
    IN  CASE pid.e # "" -> ReadErr(pid.e)
          [] codes.e # "" -> ReadErr(codes.e)
          [] OTHER -> Read(Suback(pid.v, codes.v), codes.rest)

\* the loop of MqttRead::read_unsubscribe
RECURSIVE unsubscribe_topics(_, _, _)
unsubscribe_topics(remaining_bytes, bytes, topics) ==
    IF remaining_bytes <= 0 THEN Read(topics, bytes)
    ELSE LET topic_filter == read_mqtt_string(bytes)
         IN  IF topic_filter.e # "" THEN ReadErr(topic_filter.e)
             ELSE unsubscribe_topics(remaining_bytes - (Len(topic_filter.v) + 2),
                                     topic_filter.rest,
                                     Append(topics, topic_filter.v))

\* MqttRead::read_unsubscribe
read_unsubscribe(len, raw_packet) ==
    LET pid == read_u16(raw_packet)
        topics == unsubscribe_topics(len - 2, pid.rest, <<>>)
    IN  CASE pid.e # "" -> ReadErr(pid.e)
          [] topics.e # "" -> ReadErr(topics.e)
          [] OTHER -> Read(Unsubscribe(pid.v, topics.v), topics.rest)

\* MqttRead::read_packet; the bytes that raw_packet leaves unread stay on the stream
read_packet(bytes) ==
    LET hd == read_u8(bytes)
        len == read_remaining_length(hd.rest)
        typ == HeaderTyp(hd.v)
        raw_packet == take(len.rest, len.v)
        after == SubSeq(len.rest, Len(raw_packet) + 1, Len(len.rest))
        packet == CASE typ = 1 -> read_connect(raw_packet)
                    [] typ = 2 -> read_connack(len.v, raw_packet)
                    [] typ = 3 -> read_publish(hd.v, raw_packet)
                    [] typ = 4 -> read_pid(len.v, raw_packet, "Puback")
                    [] typ = 5 -> read_pid(len.v, raw_packet, "Pubrec")
                    [] typ = 6 -> read_pid(len.v, raw_packet, "Pubrel")
                    [] typ = 7 -> read_pid(len.v, raw_packet, "Pubcomp")
                    [] typ = 8 -> read_subscribe(len.v, raw_packet)
                    [] typ = 9 -> read_suback(len.v, raw_packet)
                    [] typ = 10 -> read_unsubscribe(len.v, raw_packet)
                    [] typ = 11 -> read_pid(len.v, raw_packet, "Unsuback")
                    [] typ \in {12, 13} -> ReadErr("IncorrectPacketFormat")
                    [] OTHER -> ReadErr("UnsupportedPacketType")
    IN  CASE hd.e # "" -> ReadErr(hd.e)
          [] len.e # "" -> ReadErr(len.e)
          [] HeaderNew(hd.v) # "" -> ReadErr(HeaderNew(hd.v))
          [] len.v = 0 ->
               CASE typ = 12 -> Read(Pingreq, len.rest)
                 [] typ = 13 -> Read(Pingresp, len.rest)
                 [] OTHER -> ReadErr("PayloadRequired")
          [] packet.e # "" -> packet
          [] OTHER -> Read(packet.v, packet.rest \o after)

\* which arm of accept() the outcome of read_packet() takes
ReadArm(r) ==
    CASE r.e = "" -> "packet"
      [] r.e = "UnexpectedEof" -> "eof"
      [] OTHER -> "codec"

\* accept() called by f on a stream that holds bytes
AcceptBytes(f, stk, streams, ios) ==
    /\ Reading
    /\ \E bytes \in streams, io \in ios :
          \E r \in {read_packet(bytes)} :
              \E packet \in {IF r.e = "" THEN r.v ELSE NoPacket} :
                  Do(stk, accept(self, ReadArm(r), packet, io),
                     [Op(f, "accept") EXCEPT
                        !.read = ReadArm(r), !.packet = packet, !.bytes = bytes])

UserAcceptBytes(streams, ios) ==
    Idle /\ AcceptBytes("accept", <<"accept">>, streams, ios)

\* the streams read: a PUBLISH of each QoS (first byte 0x30, 0x32, 0x34) with a
\* topic name (empty, "a", or a byte that is no UTF-8) and what follows it, the
\* remaining length on one byte or on two; a PUBACK; a PINGRESP
TopicBytes == {<<0, 0>>, <<0, 1, 97>>, <<0, 1, 255>>}
AfterTopic == {<<>>, <<0>>, <<0, 1>>, <<0, 2, 7>>, <<1, 1, 7, 7>>}
\* the streams of read_packet_publish_qos1_test and read_packet_publish_qos0_test
TestStreams ==
    {<<50, 11, 0, 3, 97, 47, 98, 0, 10, 241, 242, 243, 244>>,
     <<48, 7, 0, 3, 97, 47, 98, 1, 2>>}
PublishStreams ==
    {<<hd, Len(topic) + Len(after)>> \o topic \o after :
        hd \in {48, 50}, topic \in TopicBytes, after \in AfterTopic}
    \cup {<<52, Len(topic) + Len(after)>> \o topic \o after :
        topic \in TopicBytes, after \in {<<0>>, <<0, 1>>}}
    \cup {<<hd, 128 + Len(topic) + Len(after), 0>> \o topic \o after :
        hd \in {48, 50}, topic \in {<<0, 1, 97>>}, after \in AfterTopic}
    \cup TestStreams
Streams == PublishStreams \cup {<<64, 2, 0, 1>>, <<64, 1, 0>>, <<208, 0>>}

InitCodec ==
    /\ Init
    /\ opts_reconnect = "ForeverDisconnect"
    /\ incomming_store = Store(TRUE)
    /\ outgoing_store = Store(TRUE)

NextCodec ==
    \/ ConnectBegin(IoOk)
    \/ ConnectResume
    \/ AwaitAccept({"packet"}, Accepted, IoOk)
    \/ AwaitResume(IoOk)
    \/ UserPublish(QoSs, IoOk) /\ Bounded'
    \/ UserAcceptBytes(Streams, IoOk) /\ Bounded'

SpecCodec == InitCodec /\ [][NextCodec]_vars

\* the body of a PUBLISH on a stream: what follows the first byte and the
\* remaining length, which takes two bytes when its first has the top bit set
Body(bytes) == SubSeq(bytes, IF bytes[2] >= 128 THEN 4 ELSE 3, Len(bytes))
\* the bytes of the body after the topic name: its length prefix and its bytes
AfterName(bytes) ==
    LET body == Body(bytes)
    IN  SubSeq(body, 3 + body[1] * 256 + body[2], Len(body))

\* C20: a PUBLISH carries a pid exactly when its QoS is greater than 0. The
\* PUBLISH that publish() writes has a pid, newly allocated, for QoS 1 and 2 and
\* none for QoS 0; the PUBLISH that the decoder makes of a stream has the QoS of
\* the header bits and, when these are non-zero, the pid of the two bytes after
\* the topic name, big-endian, the rest being payload, and when they are zero no
\* pid, all bytes after the topic name being payload.
C20_Step ==
    /\ \A i \in 1 .. Len(sent') :
          sent'[i].t = "Publish" => (sent'[i].pid # None <=> sent'[i].qos > 0)
    /\ (op'.step = "publish" /\ ret' = OkUnit) =>
          /\ Len(sent') = 1 /\ sent'[1].t = "Publish" /\ sent'[1].qos = op'.qos
          /\ IF op'.qos > 0
             THEN last_pid' = next(last_pid) /\ sent'[1].pid = last_pid'
             ELSE last_pid' = last_pid /\ sent'[1].pid = None
    /\ (op'.step = "accept" /\ op'.bytes \in PublishStreams /\ op'.read = "packet") =>
          LET packet == op'.packet
              after == AfterName(op'.bytes)
              bits == (op'.bytes[1] \div 2) % 4
          IN  /\ packet.t = "Publish" /\ packet.qos = bits
              /\ packet.pid # None <=> bits # 0
              /\ IF bits # 0
                 THEN /\ packet.pid = after[1] * 256 + after[2]
                      /\ packet.payload = SubSeq(after, 3, Len(after))
                 ELSE packet.payload = after
C20_PublishPid == [][C20_Step]_vars

\* a QoS 0 PUBLISH whose first bytes after the topic name could be a pid was
\* decoded without a pid and delivered
C20_Witness ==
    /\ op.step = "accept" /\ op.bytes = <<48, 6, 0, 1, 97, 0, 2, 7>>
    /\ op.packet.pid = None /\ op.packet.payload = <<0, 2, 7>>
    /\ ret = OkSome(Message(0, None))


(* ---------------------- more claims checked in SpecIn ------------------- *)

\* the sequence without its i-th entry
Without(seq, i) == SubSeq(seq, 1, i - 1) \o SubSeq(seq, i + 1, Len(seq))

\* C23: incomming_rel holds the pids for which a PUBREL has been accepted and no
\* PUBCOMP has been written yet: accepting a PUBREL adds its pid, and an entry
\* leaves the queue only in a step that writes the PUBCOMP for that same pid.
C23_Step ==
    /\ (op'.step = "accept" /\ op'.packet.t = "Pubrel" /\ ret'.k = "Ok")
          => incomming_rel' = Append(incomming_rel, op'.packet.pid)
    /\ incomming_rel' # incomming_rel =>
          \/ /\ op'.step = "accept" /\ op'.packet.t = "Pubrel" /\ ret'.k = "Ok"
             /\ incomming_rel' = Append(incomming_rel, op'.packet.pid)
          \/ \E i \in 1 .. Len(incomming_rel) :
                /\ incomming_rel' = Without(incomming_rel, i)
                /\ \E j \in 1 .. Len(sent') : sent'[j] = Pubcomp(incomming_rel[i])
C23_RelQueue == [][C23_Step]_vars

(* --------------------- more claims checked in SpecStore ----------------- *)

\* C24: with the stores configured, the store is written before the packet: a
\* PUBREC is written only for a pid that incomming_store holds and a QoS 2
\* PUBLISH only for a pid that outgoing_store holds, and when the put fails the
\* store is left as it was and no PUBREC or PUBLISH is written.
C24_Step ==
    /\ \A i \in 1 .. Len(sent') :
          /\ sent'[i].t = "Pubrec" => sent'[i].pid \in incomming_store'.keys
          /\ (sent'[i].t = "Publish" /\ sent'[i].qos = 2)
                => sent'[i].pid \in outgoing_store'.keys
    /\ (/\ state = "Connected" /\ op'.step = "accept"
        /\ op'.packet.t = "Publish" /\ op'.packet.qos = 2
        /\ incomming_store.present) =>
          \/ /\ ret' = OkNone
             /\ incomming_store' = put(incomming_store, op'.packet.pid)
             /\ sent' = <<Pubrec(op'.packet.pid)>>
          \/ /\ ret' = Err("Storage")
             /\ incomming_store' = incomming_store /\ sent' = <<>>
          \/ /\ ret' = Err("Io")
             /\ incomming_store' = put(incomming_store, op'.packet.pid)
    /\ (op'.step = "publish" /\ op'.qos = 2 /\ outgoing_store.present) =>
          \/ /\ ret'.k = "Ok"
             /\ outgoing_store' = put(outgoing_store, last_pid')
             /\ sent' = <<Publish(Message(2, last_pid'))>>
          \/ /\ ret' = Err("Storage")
             /\ outgoing_store' = outgoing_store /\ sent' = <<>>
          \/ /\ ret' = Err("Io")
             /\ outgoing_store' = put(outgoing_store, last_pid')
C24_StoreFirst == [][C24_Step]_vars

\* the put of an inbound QoS 2 message has failed: nothing was written
C24_Witness ==
    /\ op.step = "accept" /\ op.packet.t = "Publish" /\ op.packet.qos = 2
    /\ incomming_store.present /\ incomming_store.keys = {}
    /\ ret = Err("Storage") /\ sent = <<>>


(* ---------------------- more claims checked in SpecRe ------------------- *)

\* C25: the client is Connected only on a stream on which an accepted CONNACK was
\* read and which has not been closed or met its end since: the state becomes
\* Connected only from Handshake, on reading a CONNACK with code Accepted, and
\* it is not Connected after a terminate() or after a read of accept() that met
\* the end of the stream or a lost connection.
C25_Step ==
    /\ (state' = "Connected" /\ state # "Connected") =>
          /\ state = "Handshake"
          /\ op'.step = "accept" /\ op'.read = "packet"
          /\ op'.packet.t = "Connack" /\ op'.packet.code = "Accepted"
    /\ op'.step = "terminate" => state' # "Connected"
    /\ (op'.step = "accept" /\ op'.read \in {"eof", "lost"}) => state' # "Connected"
C25_ConnectedStream == [][C25_Step]_vars

(* --------------------- more claims checked in SpecKeep ------------------ *)

\* C27: accept() called in state Connected or Handshake when the time since the
\* last flush is at least the keep-alive interval returns Timeout: it reads
\* nothing, writes nothing and changes no field of the client.
C27_Step ==
    (/\ state \in {"Connected", "Handshake"} /\ elapsed >= KeepAlive
     /\ op'.step = "accept")
        => /\ ret' = Err("Timeout")
           /\ op'.read = "" /\ sent' = <<>>
           /\ UNCHANGED ClientFields
C27_TimeoutNoIo == [][C27_Step]_vars

\* the keep-alive interval had passed when await() called accept() on a
\* Connected client with a publish in flight and a ping unanswered
C27_Witness ==
    /\ op.step = "accept" /\ op.read = "" /\ ret = Err("Timeout")
    /\ state = "Connected" /\ elapsed >= KeepAlive
    /\ outgoing_ack # <<>> /\ await_ping

(* ---------------------- more claims checked in SpecSub ------------------ *)

\* the positions of topic t in the SUBSCRIBE that the SUBACK grants
Granted(sub, ack, t) ==
    {i \in 1 .. Len(ack.codes) :
        sub.topics[i].topic_path = t /\ ack.codes[i] # Failure}
Last(S) == CHOOSE i \in S : \A j \in S : j <= i

\* C26: when a SUBACK answers the SUBSCRIBE at the head of await_suback (same
\* pid, as many return codes as topics), the SUBSCRIBE leaves the queue and, for
\* each position, a return code Success(q) maps the topic to a Subscription with
\* the SUBSCRIBE's pid and the granted QoS q, replacing an earlier entry, and a
\* return code Failure leaves the topic's entry as it was; no other key changes.
C26_Step ==
    (/\ state = "Connected" /\ op'.step = "accept" /\ op'.read = "packet"
     /\ op'.packet.t = "Suback" /\ ~Unmatched(op'.packet))
        => LET sub == Head(await_suback)
               ack == op'.packet
           IN  /\ ret' = OkNone
               /\ await_suback' = Tail(await_suback)
               /\ \A t \in Topics :
                     subscriptions'[t] =
                        IF Granted(sub, ack, t) = {} THEN subscriptions[t]
                        ELSE Subscription(sub.pid,
                                 ack.codes[Last(Granted(sub, ack, t))])
C26_Install == [][C26_Step]_vars

\* the SUBACK of a second SUBSCRIBE has replaced the entry of topic "a", the QoS
\* granted being lower than the QoS asked for
C26_Witness ==
    /\ op.step = "accept" /\ op.packet.t = "Suback" /\ op.packet.pid = 2
    /\ ret = OkNone
    /\ subscriptions["a"] = Subscription(2, 0)
    /\ ~subscriptions["b"].present

\* ---------------------------------------------------------------------------
\* SpecLen: read_remaining_length on the byte streams of up to MaxLenField bytes
\* ---------------------------------------------------------------------------

\* the longest stream under read_remaining_length
MaxLenField == 5
\* the bytes of the streams: the least and the greatest with the continuation
\* bit clear, the least and the greatest with it set, and one more
LenBytes == {0, 1, 127, 128, 255}
LenStreams == UNION {[1 .. n -> LenBytes] : n \in 1 .. MaxLenField}

\* a caller applies read_remaining_length to the stream
ReadRemainingLength ==
    /\ decoded = NoRead
    /\ stream # <<>>
    /\ LET len == read_remaining_length(stream)
       IN  /\ decoded' = [NoRead EXCEPT !.f = "read_remaining_length",
                                        !.e = len.e, !.len = len.v]
           /\ stream' = len.rest
    /\ UNCHANGED <<client_vars, stack, ret, op, out_cycle, in_cycle, alive>>

InitLen ==
    /\ InitClient
    /\ stream \in LenStreams
    /\ decoded = NoRead
NextLen == ReadRemainingLength
SpecLen == InitLen /\ [][NextLen]_vars

\* ---------------------------------------------------------------------------
\* claims checked in SpecLen
\* ---------------------------------------------------------------------------

\* 128^(i-1), the weight of the i-th byte of a length field
Weight == <<1, 128, 128 * 128, 128 * 128 * 128>>
\* the bytes with the continuation bit set
Continued(byte) == byte >= 128
\* the first k bytes are a length field: all but the last are continued
IsField(bytes, k) ==
    /\ k <= Len(bytes)
    /\ \A i \in 1 .. k - 1 : Continued(bytes[i])
    /\ ~Continued(bytes[k])
\* the sum of the seven data bits of the first k bytes, each with its weight
RECURSIVE FieldValue(_, _)
FieldValue(bytes, k) ==
    IF k = 0 THEN 0 ELSE FieldValue(bytes, k - 1) + (bytes[k] % 128) * Weight[k]
\* the first four bytes are all continued
NeedsFifth(bytes) == Len(bytes) >= 4 /\ \A i \in 1 .. 4 : Continued(bytes[i])

C22_Step == decoded'.f = "read_remaining_length" /\ decoded = NoRead
\* a field of one to four bytes is read as the sum, and the bytes after it stay
C22_Sum ==
    \A k \in 1 .. 4 :
        IsField(stream, k) =>
            /\ decoded'.e = ""
            /\ decoded'.len = FieldValue(stream, k)
            /\ stream' = SubSeq(stream, k + 1, Len(stream))

\* C22 as stated: read_remaining_length returns the sum of (byte_i & 0x7F) *
\* 128^i for a length field of one to four bytes, and fails with
\* MalformedRemainingLength whenever the fourth byte still has its continuation
\* bit set
C22_Stated ==
    [][C22_Step => /\ C22_Sum
                   /\ NeedsFifth(stream) =>
                          decoded'.e = "MalformedRemainingLength"]_vars

\* C22, amended: read_remaining_length returns the sum of (byte_i & 0x7F) *
\* 128^i for a length field of one to four bytes; after four bytes with the
\* continuation bit set it reads a fifth byte, and fails with
\* MalformedRemainingLength if there is one and with UnexpectedEof if the stream
\* ends there
C22_RemainingLength ==
    [][C22_Step => /\ C22_Sum
                   /\ NeedsFifth(stream) =>
                          decoded'.e = IF Len(stream) >= 5
                                       THEN "MalformedRemainingLength"
                                       ELSE "UnexpectedEof"]_vars
\* FF FF FF 7F has been read as 268 435 455
C22_Witness ==
    /\ decoded.f = "read_remaining_length"
    /\ decoded.e = ""
    /\ decoded.len = 268435455

\* ---------------------------------------------------------------------------
\* SpecWire: read_packet on streams of packets written back to back
\* ---------------------------------------------------------------------------

\* the encoder: the remaining length, seven bits to a byte, the lowest first
RECURSIVE write_remaining_length(_)
write_remaining_length(len) ==
    IF len < 128 THEN <<len>>
    ELSE <<(len % 128) + 128>> \o write_remaining_length(len \div 128)
write_u16(n) == <<n \div 256, n % 256>>
write_mqtt_string(s) == write_u16(Len(s)) \o s
\* the fixed header, then the body
Frame(hd, body) == <<hd>> \o write_remaining_length(Len(body)) \o body

RECURSIVE write_topics(_)
write_topics(topics) ==
    IF topics = <<>> THEN <<>>
    ELSE write_mqtt_string(Head(topics).topic_path) \o <<Head(topics).qos>>
             \o write_topics(Tail(topics))
RECURSIVE write_filters(_)
write_filters(topics) ==
    IF topics = <<>> THEN <<>>
    ELSE write_mqtt_string(Head(topics)) \o write_filters(Tail(topics))
RECURSIVE write_codes(_)
write_codes(codes) ==
    IF codes = <<>> THEN <<>>
    ELSE <<IF Head(codes) = Failure THEN 128 ELSE Head(codes)>>
             \o write_codes(Tail(codes))

Bit(b) == IF b THEN 1 ELSE 0
\* the position of a return code in ReturnCodes
CodeByte(code) == CHOOSE i \in 0 .. 5 : ReturnCodes[i + 1] = code

\* the body of the one CONNECT the model writes: MQTT level 4, flags CE (user
\* name, password, will of QoS 1, clean session), keep-alive 10, client id
\* "test", will "/a" <- "offline", user name "rust", password "mq"
ConnectBody ==
    write_mqtt_string(MQTT) \o <<4, 206>> \o write_u16(10)
        \o write_mqtt_string(<<116, 101, 115, 116>>)
        \o write_mqtt_string(<<47, 97>>)
        \o write_mqtt_string(<<111, 102, 102, 108, 105, 110, 101>>)
        \o write_mqtt_string(<<114, 117, 115, 116>>)
        \o write_mqtt_string(<<109, 113>>)

\* the wire encoding of a packet
write_packet(p) ==
    CASE p.t = "Connect" -> Frame(16, ConnectBody)
      [] p.t = "Connack" -> Frame(32, <<Bit(p.sp), CodeByte(p.code)>>)
      [] p.t = "Publish" ->
           Frame(48 + 8 * Bit(p.dup) + 2 * p.qos + Bit(p.retain),
                 write_mqtt_string(p.topic_name)
                     \o (IF p.qos # 0 THEN write_u16(p.pid) ELSE <<>>)
                     \o p.payload)
      [] p.t = "Puback" -> Frame(64, write_u16(p.pid))
      [] p.t = "Pubrec" -> Frame(80, write_u16(p.pid))
      [] p.t = "Pubrel" -> Frame(98, write_u16(p.pid))
      [] p.t = "Pubcomp" -> Frame(112, write_u16(p.pid))
      [] p.t = "Subscribe" -> Frame(130, write_u16(p.pid) \o write_topics(p.topics))
      [] p.t = "Suback" -> Frame(144, write_u16(p.pid) \o write_codes(p.codes))
      [] p.t = "Unsubscribe" ->
           Frame(162, write_u16(p.pid) \o write_filters(p.topics))
      [] p.t = "Unsuback" -> Frame(176, write_u16(p.pid))
      [] p.t = "Pingreq" -> Frame(192, <<>>)
      [] p.t = "Pingresp" -> Frame(208, <<>>)
      [] p.t = "Disconnect" -> Frame(224, <<>>)

\* the packets of the streams: every variant, pids of one and of two bytes,
\* a payload that needs a remaining length of two bytes
LongPayload == 130
WirePids == {1, 260}
WireTopics == {<<97>>, <<97, 47, 98>>}
WirePayloads == {<<>>, <<241, 242>>, [i \in 1 .. LongPayload |-> 7]}
WirePublishes ==
    {[Publish(Message(0, None)) EXCEPT !.topic_name = <<97>>, !.payload = payload,
                                       !.retain = retain] :
        payload \in WirePayloads, retain \in BOOLEAN}
    \cup {[Publish(Message(qos, pid)) EXCEPT !.topic_name = topic, !.dup = dup,
                                             !.payload = <<241, 242>>] :
            qos \in {1, 2}, pid \in WirePids, topic \in WireTopics, dup \in BOOLEAN}
WireSubscribeTopics ==
    {<<SubscribeTopic(<<97>>, 1)>>,
     <<SubscribeTopic(<<97, 47, 43>>, 0), SubscribeTopic(<<35>>, 1),
       SubscribeTopic(<<97, 47, 98, 47, 99>>, 2)>>}
WirePackets ==
    {Connect, Pingreq, Pingresp, Disconnect}
    \cup {Connack(sp, ReturnCodes[i]) : sp \in BOOLEAN, i \in 1 .. 6}
    \cup WirePublishes
    \cup {[Pkt(t) EXCEPT !.pid = pid] :
            t \in {"Puback", "Pubrec", "Pubrel", "Pubcomp", "Unsuback"},
            pid \in WirePids}
    \cup {Subscribe(pid, topics) : pid \in WirePids, topics \in WireSubscribeTopics}
    \cup {Suback(pid, codes) : pid \in WirePids,
                               codes \in {<<0>>, <<2>>, <<1, Failure>>}}
    \cup {Unsubscribe(pid, topics) : pid \in WirePids,
                                     topics \in {<<<<97>>>>, <<<<97>>, <<35>>>>}}

\* a CONNECT whose remaining length covers one byte more than its fields
PaddedConnect == Frame(16, ConnectBody \o <<0>>)
\* streams that no encoder writes: a SUBSCRIBE that is a pid and nothing else,
\* PUBLISHes with the QoS bits 11, a length field of five bytes, a PUBACK that is
\* too long, a CONNACK with return code 6, packet types 0 and 15
RawStreams ==
    {<<130, 2, 0, 1>>, <<130, 2, 1, 4, 192, 0>>,
     <<54, 3, 0, 1, 97>>, <<54, 5, 0, 1, 97, 0, 1>>, <<54, 0>>,
     <<16, 255, 255, 255, 255, 0>>, <<64, 3, 0, 1, 0>>, <<32, 2, 0, 6>>,
     <<0, 0>>, <<240, 0>>, <<128, 2, 0, 1>>, <<192, 1, 0>>,
     PaddedConnect \o Frame(192, <<>>)}
WireStreams ==
    {write_packet(p) \o write_packet(q) : p, q \in WirePackets} \cup RawStreams

\* a caller applies read_packet to the stream; after an error it reads no more
ReadPacket ==
    /\ decoded.e = ""
    /\ stream # <<>>
    /\ LET packet == read_packet(stream)
       IN  /\ decoded' = [NoRead EXCEPT
                            !.f = "read_packet", !.e = packet.e,
                            !.packet = IF packet.e = "" THEN packet.v ELSE NoPacket]
           /\ stream' = packet.rest
    /\ UNCHANGED <<client_vars, stack, ret, op, out_cycle, in_cycle, alive>>

InitWire ==
    /\ InitClient
    /\ stream \in WireStreams
    /\ decoded = NoRead
NextWire == ReadPacket
SpecWire == InitWire /\ [][NextWire]_vars

\* ---------------------------------------------------------------------------
\* claims checked in SpecWire
\* ---------------------------------------------------------------------------

\* the stream begins with the bytes
StartsWith(bytes, prefix) ==
    Len(prefix) <= Len(bytes) /\ SubSeq(bytes, 1, Len(prefix)) = prefix
\* a step of ReadPacket
ReadPacketStep == decoded'.f = "read_packet" /\ stream' # stream

\* C29: decoding a SUBSCRIBE whose remaining length covers only the two-byte pid
\* is an error; read_packet never returns a Subscribe with an empty topic list
C29_SubscribeNeedsTopic ==
    [][ReadPacketStep =>
          ~(decoded'.packet.t = "Subscribe" /\ decoded'.packet.topics = <<>>)]_vars

\* C30: decoding a PUBLISH whose QoS bits are 11 returns the error
\* UnsupportedQualityOfService; it yields no Publish and does not abort
C30_QosThree ==
    [][ReadPacketStep /\ Len(stream) > 2 /\ HeaderTyp(stream[1]) = 3
                      /\ HeaderQos(stream[1]) = 3 /\ stream[2] \in 1 .. 127 =>
          decoded'.e = "UnsupportedQualityOfService"]_vars

\* every variant but Disconnect is read back as it was written
C21_Others ==
    [][ReadPacketStep =>
          \A p \in WirePackets \ {Disconnect} :
              StartsWith(stream, write_packet(p)) =>
                  decoded'.e = "" /\ decoded'.packet = p]_vars
\* C21: read_packet applied to the wire encoding of a packet p of any variant
\* returns p
C21_RoundTrip ==
    [][ReadPacketStep =>
          \A p \in WirePackets :
              StartsWith(stream, write_packet(p)) =>
                  decoded'.e = "" /\ decoded'.packet = p]_vars

\* the bytes of a packet on the stream: the fixed header, a length field of k
\* bytes, and as many bytes as the field says
Framed(bytes, n) ==
    \E k \in 1 .. 4 :
        /\ IsField(Tail(bytes), k)
        /\ n = 1 + k + FieldValue(Tail(bytes), k)
\* every packet but a CONNECT is consumed whole
C28_Others ==
    [][ReadPacketStep /\ decoded'.e = "" /\ decoded'.packet.t # "Connect" =>
          Framed(stream, Len(stream) - Len(stream'))]_vars
\* C28: when read_packet returns a packet it has consumed the fixed-header byte,
\* the bytes of the length field and remaining_length bytes more, so that the
\* next read_packet starts at the first byte of the next packet
C28_ExactConsumption ==
    [][ReadPacketStep /\ decoded'.e = "" =>
          Framed(stream, Len(stream) - Len(stream'))]_vars

(* ---------- SpecRej: acknowledgements that do not answer the head -------- *)

\* the acknowledgements of every queue, and the QoS 2 PUBLISH that fills
\* incomming_rec
RejPackets ==
    Pubacks \cup Pubrecs \cup Pubrels \cup Unsubacks
    \cup {Publish(Message(2, 1))}
    \cup {Suback(pid, <<0>>) : pid \in 1 .. MaxAlloc}

InitRej ==
    /\ Init
    /\ opts_reconnect = "ForeverDisconnect"
    /\ incomming_store = Store(TRUE)
    /\ outgoing_store = Store(TRUE)

NextRej ==
    \/ ConnectBegin(IoOk)
    \/ ConnectResume
    \/ AwaitAccept({"packet"}, Accepted, IoOk)
    \/ AwaitResume(IoOk)
    \/ UserPublish({1, 2}, IoOk) /\ Bounded'
    \/ UserSubscribe(PidSubs, IoOk) /\ Bounded'
    \/ UserUnsubscribe(PidUnsubs, IoOk) /\ Bounded'
    \/ UserAccept({"packet"}, RejPackets, IoOk) /\ Bounded'
    \/ UserComplete(InPids, IoOk)

SpecRej == InitRej /\ [][NextRej]_vars

\* the step is an error and the queue has lost its head
HeadLost(before, after) == ret'.k = "Err" /\ after = Tail(before)
\* the queue has an entry at its head and the packet names another pid
OtherPid(queue, packet) == queue # <<>> /\ Head(queue).pid # packet.pid

\* C31: an acknowledgement that is rejected still consumes the head of its
\* queue. A PUBACK, PUBREC, PUBREL, SUBACK or UNSUBACK that arrives in state
\* Connected with a pid other than that of the head of outgoing_ack,
\* outgoing_rec, incomming_rec, await_suback or await_unsuback is answered with
\* an error, and the queue is left without that head; complete(pid) with a pid
\* other than the last entry of incomming_rel is an error and removes that entry.
C31_Step ==
    /\ (state = "Connected" /\ op'.step = "accept" /\ op'.read = "packet") =>
          LET packet == op'.packet
          IN  /\ (packet.t = "Puback" /\ OtherPid(outgoing_ack, packet)) =>
                    HeadLost(outgoing_ack, outgoing_ack')
              /\ (packet.t = "Pubrec" /\ OtherPid(outgoing_rec, packet)) =>
                    HeadLost(outgoing_rec, outgoing_rec')
              /\ (packet.t = "Pubrel" /\ OtherPid(incomming_rec, packet)) =>
                    HeadLost(incomming_rec, incomming_rec')
              /\ (packet.t = "Suback" /\ OtherPid(await_suback, packet)) =>
                    HeadLost(await_suback, await_suback')
              /\ (packet.t = "Unsuback" /\ OtherPid(await_unsuback, packet)) =>
                    HeadLost(await_unsuback, await_unsuback')
    /\ (op'.step = "complete" /\ incomming_rel # <<>>
        /\ incomming_rel[Len(incomming_rel)] # op'.pid) =>
          /\ ret' = Err("ProtocolViolation")
          /\ incomming_rel' = SubSeq(incomming_rel, 1, Len(incomming_rel) - 1)
C31_RejectedAckPops == [][C31_Step]_vars

\* two UNSUBSCRIBEs were waiting and the UNSUBACK named the second: it was
\* rejected, and the first is gone
C31_Witness ==
    /\ op.step = "accept" /\ op.packet = Unsuback(2)
    /\ ret = Err("ProtocolViolation")
    /\ Len(await_unsuback) = 1 /\ await_unsuback[1].pid = 2

(* ------- SpecAbsent: inbound QoS 2 traffic with and without a store ------ *)

\* QoS 2 PUBLISHes and their PUBRELs, and what lets accept() return Ok(None) or
\* a message: a PINGRESP, a QoS 0 PUBLISH
AbsentPackets ==
    Accepted \cup {p \in Publishes : p.qos # 1} \cup Pubrels \cup {Pingresp}

InitAbsent ==
    /\ Init
    /\ opts_reconnect = "ForeverDisconnect"
    /\ outgoing_store = Store(FALSE)

NextAbsent ==
    \/ ConnectBegin(IoOk)
    \/ ConnectResume
    \/ UserAccept({"packet"}, AbsentPackets, IoOk) /\ Bounded'
    \/ UserAwait({"packet"}, AbsentPackets, IoOk) /\ Bounded'
    \/ AwaitAccept({"packet"}, AbsentPackets, IoOk) /\ Bounded'
    \/ AwaitResume(IoOk)

SpecAbsent == InitAbsent /\ [][NextAbsent]_vars

\* accept() in state Connected takes the packet from the stream
Dispatch(t) ==
    state = "Connected" /\ op'.step = "accept" /\ op'.read = "packet" /\ op'.packet.t = t
\* await() returns Ok(None)
AwaitReturnsNone ==
    /\ Top = "await" /\ op'.step = "await_resume"
    /\ Len(stack') < Len(stack) /\ ret' = OkNone

\* C32: an inbound QoS 2 PUBLISH received with no incoming store is answered with
\* IncommingStorageAbsent and yet its message is appended to incomming_rec. While
\* incomming_rec holds an entry await() does not return Ok(None), and only a
\* PUBREL takes an entry out. The PUBREL that names the pid of the head entry
\* takes it out and, with no incoming store, is answered with
\* IncommingStorageAbsent again: no message is delivered and incomming_rel is as
\* it was.
C32_Step ==
    /\ (Dispatch("Publish") /\ op'.packet.qos = 2 /\ ~incomming_store.present) =>
          /\ ret' = Err("IncommingStorageAbsent")
          /\ incomming_rec' = Append(incomming_rec, Message(2, op'.packet.pid))
    /\ AwaitReturnsNone => incomming_rec' = <<>>
    /\ (Len(incomming_rec') < Len(incomming_rec)) => Dispatch("Pubrel")
    /\ (Dispatch("Pubrel") /\ ~incomming_store.present /\ incomming_rec # <<>>
        /\ Head(incomming_rec).pid = op'.packet.pid) =>
          /\ ret' = Err("IncommingStorageAbsent")
          /\ incomming_rec' = Tail(incomming_rec)
          /\ incomming_rel' = incomming_rel
C33_Step ==
    opts_reconnect = "ReconnectAfter" =>
        /\ op'.step \in {"accept", "accept_resume"} => ret' # Err("Disconnected")
        /\ (/\ op'.step = "accept"
            /\ \/ state = "Disconnected"
               \/ state \in {"Connected", "Handshake"} /\ op'.read \in {"eof", "lost"})
              => ret' = Running /\ stack' # <<>> /\ stack'[Len(stack')] = "reconnect"
        /\ op'.step = "accept_resume" =>
              /\ Top = "accept" /\ Len(stack') = Len(stack) - 1
              /\ ret' = OkNone
              /\ UNCHANGED ClientFields
C33_NeverDisconnected == [][C33_Step]_vars

\* accept() has returned Ok(None) after a reconnect() whose CONNACK was refused:
\* the state is Handshake
C33_Witness ==
    /\ opts_reconnect = "ReconnectAfter"
    /\ op.step = "accept_resume" /\ ret = OkNone
    /\ state = "Handshake"

(* ------- SpecShake: a reconnect() with publishes still in flight --------- *)

\* the CONNACK, the acknowledgements of the flows in flight, and application
\* messages at QoS 0 and QoS 2
ShakePackets ==
    Accepted \cup {Puback(1), Pubrec(1), Pubrel(1)}
    \cup {Publish(Message(0, None)), Publish(Message(2, 1))}

InitShake ==
    /\ Init
    /\ opts_reconnect = "ForeverDisconnect"
    /\ incomming_store = Store(TRUE)
    /\ outgoing_store = Store(TRUE)

NextShake ==
    \/ ConnectBegin(IoOk)
    \/ ConnectResume
    \/ UserPublish({1, 2}, IoOk) /\ Bounded'
    \/ UserAccept({"packet"}, ShakePackets, IoOk) /\ Bounded'
    \/ UserTerminate
    \/ UserReconnect({TRUE}, IoOk)
    \/ AwaitAccept({"packet"}, ShakePackets, IoOk) /\ Bounded'
    \/ AwaitResume(IoOk)
    \/ ReconnectResume /\ Bounded'

SpecShake == InitShake /\ [][NextShake]_vars

\* a publish flow is in flight, outbound or inbound
InFlightPublish ==
    \/ outgoing_ack # <<>> \/ outgoing_rec # <<>>
    \/ incomming_rec # <<>> \/ incomming_rel # <<>>
\* the await() of a handshake of reconnect() takes the result of its accept()
ShakeResume == InReconnect /\ Top = "await" /\ op'.step = "await_resume"

\* C34: when reconnect() runs its handshake while outgoing_ack, outgoing_rec,
\* incomming_rec or incomming_rel is non-empty, the handshake does not stop at the
\* accepted CONNACK: its await() takes another packet after every Ok(None) of
\* accept(), and returns only when the queues are empty, with a message or with
\* an error. A message it returns is dropped by reconnect(), which returns Ok(())
\* and keeps nothing of it: no result that carries a message leaves a reconnect()
\* for the user.
C34_Step ==
    /\ (ShakeResume /\ ret = OkNone /\ InFlightPublish) =>
          ret' = Running /\ stack' = stack
    /\ (ShakeResume /\ Len(stack') < Len(stack)) =>
          \/ ret'.k = "Err"
          \/ ret'.k = "Ok" /\ ret'.e = "Some"
          \/ ret' = OkNone /\ ~InFlightPublish'
    /\ (op'.step = "reconnect_resume" /\ ret.k = "Ok" /\ ret.e = "Some") =>
          /\ ret' = OkUnit
          /\ UNCHANGED PubQueues
    /\ (InReconnect /\ ret'.k = "Ok" /\ ret'.e = "Some") => stack' # <<>>
C34_HandshakeDrains == [][C34_Step]_vars

\* the handshake of a reconnect() went on after its CONNACK, a QoS 1 publish
\* being in flight, and its await() has returned a QoS 0 message to reconnect()
C34_Witness ==
    /\ Top = "reconnect" /\ op.step = "await_resume"
    /\ op.packet = Publish(Message(0, None))
    /\ ret.k = "Ok" /\ ret.e = "Some"
    /\ state = "Connected" /\ outgoing_ack # <<>>

(* ----- SpecEmpty: reconnect() of a client with and without subscriptions -- *)

\* CONNACKs that accept and that refuse; SUBACKs with no return code and with one
EmptyPackets ==
    Connacks \cup {Suback(pid, codes) : pid \in 1 .. MaxAlloc, codes \in {<<>>, <<0>>}}

InitEmpty ==
    /\ Init
    /\ opts_reconnect = "ForeverDisconnect"
    /\ incomming_store = Store(FALSE)
    /\ outgoing_store = Store(FALSE)

NextEmpty ==
    \/ ConnectBegin(IoOk)
    \/ ConnectResume
    \/ UserSubscribe(PidSubs, IoOk) /\ Bounded'
    \/ UserTerminate
    \/ UserReconnect(BOOLEAN, IoOk)
    \/ UserAwait({"packet"}, EmptyPackets, IoOk)
    \/ AwaitAccept({"packet"}, EmptyPackets, IoOk)
    \/ AwaitResume(IoOk)
    \/ ReconnectResume /\ Bounded'

SpecEmpty == InitEmpty /\ [][NextEmpty]_vars

\* reconnect() goes on after its handshake returned Ok: it resubscribes
Resubscribes == op'.step = "reconnect_resume" /\ ret.k = "Ok"
\* the SUBSCRIBE of the resubscribe: a new pid, the topics of the map (none when
\* the map is empty), written and queued
ResubscribeEffect ==
    \E subs \in Orderings(subscriptions) :
        /\ subscriptions = [t \in Topics |-> NoSubscription] => subs = <<>>
        /\ last_pid' = next(last_pid)
        /\ sent' = <<Subscribe(last_pid', subs)>>
        /\ await_suback' = Append(await_suback, Subscribe(last_pid', subs))
        /\ ret' = OkUnit
\* a SUBSCRIBE with no topics is at the head of await_suback and leaves it
EmptyHeadLeaves ==
    /\ await_suback # <<>> /\ Head(await_suback).topics = <<>>
    /\ Len(await_suback') < Len(await_suback)

\* C35 as stated: a reconnect() whose handshake went through emits a SUBSCRIBE,
\* also for an empty map, so that await_suback is non-empty afterwards; await()
\* does not return Ok(None) while it is; and the SUBSCRIBE with no topics leaves
\* await_suback only when a SUBACK with its pid and no return codes arrives.
C35_Stated ==
    /\ Resubscribes => ResubscribeEffect
    /\ AwaitReturnsNone => await_suback' = <<>>
    /\ EmptyHeadLeaves =>
          /\ Dispatch("Suback")
          /\ op'.packet.pid = Head(await_suback).pid /\ op'.packet.codes = <<>>
C35_UntilItsSuback == [][C35_Stated]_vars

\* C35, amended: a reconnect() whose handshake returned Ok emits a SUBSCRIBE,
\* also for an empty map: it allocates a pid, writes a SUBSCRIBE with the topics
\* of the map and appends it to await_suback, which is non-empty when reconnect()
\* returns. await() does not return Ok(None) while await_suback is non-empty. The
\* SUBSCRIBE with no topics leaves await_suback when any SUBACK is dispatched or
\* the client unbinds; the SUBACK is accepted without error only if it has the
\* pid of the SUBSCRIBE and no return codes.
C35_Step ==
    /\ Resubscribes => ResubscribeEffect
    /\ AwaitReturnsNone => await_suback' = <<>>
    /\ EmptyHeadLeaves =>
          \/ op'.step = "terminate"
          \/ /\ Dispatch("Suback")
             /\ ret' = OkNone =>
                   /\ op'.packet.pid = Head(await_suback).pid
                   /\ op'.packet.codes = <<>>
             /\ ret' # OkNone => ret' = Err("ProtocolViolation")
C35_EmptySubscribe == [][C35_Step]_vars

\* a reconnect() of a client without subscriptions has returned: its SUBSCRIBE
\* with no topics is written and waits in await_suback
C35_Witness ==
    /\ op.step = "reconnect_resume" /\ ret = OkUnit
    /\ state = "Connected"
    /\ sent = <<Subscribe(1, <<>>)>>
    /\ await_suback = <<Subscribe(1, <<>>)>>

(* ----- SpecAbort: accept() with something on the stream in every state ---- *)

\* accept() called by f while the stream holds `read`, whatever the state:
\* whether accept() reads it is left to accept()
Offer(f, stk, reads, packets, ios) ==
    \E read \in reads :
        \E packet \in IF read = "packet" THEN packets ELSE {NoPacket}, io \in ios :
            Do(stk, accept(self, read, packet, io),
               [Op(f, "accept") EXCEPT !.read = read, !.packet = packet])

UserOffer(reads, packets, ios) ==
    Idle /\ Offer("accept", <<"accept">>, reads, packets, ios)

AwaitOffer(reads, packets, ios) ==
    /\ Top = "await" /\ ret = Running
    /\ Offer(op.f, Append(stack, "accept"), reads, packets, ios)

AbortPackets == Connacks \cup {Puback(1), Pingresp, Disconnect}

InitAbort ==
    /\ Init
    /\ incomming_store = Store(FALSE)
    /\ outgoing_store = Store(FALSE)

NextAbort ==
    \/ ConnectBegin(IoOk)
    \/ ConnectResume
    \/ UserPublish({1}, IoOk) /\ Bounded'
    \/ UserTerminate
    \/ UserSetReconnect
    \/ UserOffer(ReReads, AbortPackets, IoOk)
    \/ AwaitOffer(ReReads, AbortPackets, IoOk)
    \/ AwaitResume(IoOk)
    \/ AcceptResume
    \/ TryReconnect(BOOLEAN, IoOk) /\ Bounded'
    \/ ReconnectResume /\ Bounded'

SpecAbort == InitAbort /\ [][NextAbort]_vars

\* C36: no call returns ConnectionAbort. accept() dispatches a packet only when it
\* found the state Connected or Handshake: called in state Disconnected it leaves
\* what is on the stream, writes nothing and changes no field of the client, and
\* either answers Disconnected or goes on to reconnect(); so neither the
\* Disconnected arm of _parse_packet nor the unbind that accept() does on
\* ConnectionAbort is executed.
C36_Step ==
    /\ ret' # Err("ConnectionAbort")
    /\ (op'.step = "accept" /\ state = "Disconnected") =>
          /\ ClientFields' = ClientFields
          /\ sent' = <<>>
          /\ \/ ret' = Err("Disconnected") /\ opts_reconnect = "ForeverDisconnect"
             \/ ret' = Running /\ Top' = "reconnect"
                   /\ opts_reconnect # "ForeverDisconnect"
C36_NoConnectionAbort == [][C36_Step]_vars

\* accept() was called in state Disconnected while a packet was waiting on the
\* stream: it answered Disconnected
C36_Witness ==
    /\ op.step = "accept" /\ op.read = "packet"
    /\ state = "Disconnected"
    /\ ret = Err("Disconnected")

(* ----- SpecHeld: QoS 2 in both directions, with and without the stores ---- *)

HeldPackets ==
    Accepted \cup {Publish(Message(2, 1)), Pubrec(1), Pubrel(1), Pubcomp(1)}

InitHeld ==
    /\ Init
    /\ opts_reconnect = "ForeverDisconnect"

NextHeld ==
    \/ ConnectBegin(IoOk)
    \/ ConnectResume
    \/ UserPublish({2}, IOs) /\ Bounded'
    \/ UserAccept({"packet"}, HeldPackets, IoOk) /\ Bounded'
    \/ UserComplete(InPids, IoOk)
    \/ UserTerminate
    \/ UserReconnect({TRUE}, IoOk)
    \/ AwaitAccept({"packet"}, HeldPackets, IoOk) /\ Bounded'
    \/ AwaitResume(IoOk)
    \/ ReconnectResume /\ Bounded'

SpecHeld == InitHeld /\ [][NextHeld]_vars

\* a message waits in outgoing_rec only with an outgoing store, a pid in
\* incomming_rel only with an incoming store
StoresHeld ==
    /\ outgoing_rec # <<>> => outgoing_store.present
    /\ incomming_rel # <<>> => incomming_store.present
\* the step wrote a packet of type t
Wrote(t) == \E i \in 1 .. Len(sent') : sent'[i].t = t

\* C37: outgoing_rec is non-empty only when an outgoing store is configured and
\* incomming_rel only when an incoming store is configured, and no step adds or
\* removes a store; so the PUBREC handler never answers that the store is absent
\* once it has written PUBREL and queued the pid in outgoing_comp, and complete()
\* never does once it has written PUBCOMP.
C37_Step ==
    /\ StoresHeld /\ StoresHeld'
    /\ outgoing_store'.present = outgoing_store.present
    /\ incomming_store'.present = incomming_store.present
    /\ (Dispatch("Pubrec") /\ (Wrote("Pubrel") \/ outgoing_comp' # outgoing_comp)) =>
          ret' # Err("IncommingStorageAbsent")
    /\ (op'.step = "complete" /\ Wrote("Pubcomp")) =>
          ret' # Err("IncommingStorageAbsent")
C37_StoreBehindQueue == [][C37_Step]_vars

\* a PUBREC was answered with PUBREL while a delivered message waited for its
\* complete(): both queues were in use, both stores are there
C37_Witness ==
    /\ op.step = "accept" /\ op.packet.t = "Pubrec" /\ ret = OkNone
    /\ sent = <<Pubrel(op.packet.pid)>>
    /\ outgoing_comp # <<>> /\ incomming_rel # <<>>
    /\ outgoing_store.present /\ incomming_store.present

====
